---- MODULE Spec2Model ----
(***************************************************************************)
(* Reading plans, notes and highlights of the local API server             *)
(* (server/index.ts): the tables and the request handlers that read and    *)
(* write them; and of the client the reading-plan generator, the Plans    *)
(* tab, and the reader with its verse selection and its bookmarks.         *)
(***************************************************************************)
EXTENDS Integers, Sequences, FiniteSets, TLC

(***************************************************************************)
(* Numbers.  JavaScript numbers are IEEE-754 doubles; the progress         *)
(* percentage is Math.round((completed / total) * 100): two correctly      *)
(* rounded double operations followed by a round-half-up to an integer.    *)
(* A positive double is modelled as [m, e]: m its 53-bit significand       *)
(* held as five limbs <<13 bits, 10 bits, 10 bits, 10 bits, 10 bits>>,     *)
(* most significant first and with the leading bit set, read as a binary   *)
(* fraction in [1/2, 1) and scaled by 2^e.                                 *)
(***************************************************************************)
TopRadix == 8192
LimbRadix == 1024

RECURSIVE Pow2(_)
Pow2(k) == IF k <= 0 THEN 1 ELSE 2 * Pow2(k - 1)

\* number of zero binary digits before the first one digit of the
\* fraction r / t (0 < r < t)
RECURSIVE LeadingZeros(_, _)
LeadingZeros(r, t) ==
    IF 2 * r >= t THEN 0 ELSE 1 + LeadingZeros(2 * r, t)

\* significand + 1; a carry out of the top limb renormalises to 1/2 * 2^(e+1)
IncrSignificand(m, e) ==
    LET c5 == (m[5] + 1) \div LimbRadix
        c4 == (m[4] + c5) \div LimbRadix
        c3 == (m[3] + c4) \div LimbRadix
        c2 == (m[2] + c3) \div LimbRadix
        top == m[1] + c2
    IN  IF top = TopRadix
        THEN [m |-> <<TopRadix \div 2, 0, 0, 0, 0>>, e |-> e + 1]
        ELSE [m |-> <<top, (m[2] + c3) % LimbRadix, (m[3] + c4) % LimbRadix,
                      (m[4] + c5) % LimbRadix, (m[5] + 1) % LimbRadix>>,
              e |-> e]

\* round to nearest, ties to even: guard is the first digit that does not
\* fit in the significand, sticky says that non-zero digits follow it
RoundNearestEven(m, e, guard, sticky) ==
    IF guard = 1 /\ (sticky \/ m[5] % 2 = 1) THEN IncrSignificand(m, e)
    ELSE [m |-> m, e |-> e]

\* the double nearest to c / t, for 0 < c < t: long division of the
\* normalised fraction, 53 digits and a guard digit
DoubleDiv(c, t) ==
    LET z == LeadingZeros(c, t)
        r0 == c * Pow2(z)
        q1 == (r0 * TopRadix) \div t
        r1 == (r0 * TopRadix) % t
        q2 == (r1 * LimbRadix) \div t
        r2 == (r1 * LimbRadix) % t
        q3 == (r2 * LimbRadix) \div t
        r3 == (r2 * LimbRadix) % t
        q4 == (r3 * LimbRadix) \div t
        r4 == (r3 * LimbRadix) % t
        q5 == (r4 * LimbRadix) \div t
        r5 == (r4 * LimbRadix) % t
        guard == (2 * r5) \div t
        r6 == (2 * r5) % t
    IN  RoundNearestEven(<<q1, q2, q3, q4, q5>>, 0 - z, guard, r6 # 0)

\* the double nearest to x * 100: the exact product of the significand,
\* shifted right by the 6 or 7 digits it has too many, then rounded
DoubleTimes100(x) ==
    LET p5 == x.m[5] * 100
        p4 == x.m[4] * 100 + p5 \div LimbRadix
        p3 == x.m[3] * 100 + p4 \div LimbRadix
        p2 == x.m[2] * 100 + p3 \div LimbRadix
        p1 == x.m[1] * 100 + p2 \div LimbRadix
        l5 == p5 % LimbRadix
        l4 == p4 % LimbRadix
        l3 == p3 % LimbRadix
        l2 == p2 % LimbRadix
        \* p1 < 2^20; the product has 60 digits when p1 >= 2^19, else 59
        s == IF p1 >= Pow2(19) THEN 7 ELSE 6
        lo == Pow2(s)
        hi == LimbRadix \div lo
        m == << p1 \div lo,
                (p1 % lo) * hi + l2 \div lo,
                (l2 % lo) * hi + l3 \div lo,
                (l3 % lo) * hi + l4 \div lo,
                (l4 % lo) * hi + l5 \div lo >>
        guard == (l5 % lo) \div (lo \div 2)
        sticky == l5 % (lo \div 2) # 0
    IN  RoundNearestEven(m, x.e + s, guard, sticky)

\* Math.round of a double x with 1/2 <= x < 2^13: the integer part, plus one
\* when the fraction is at least one half
MathRound(x) ==
    IF x.e < 0 THEN 0
    ELSE LET unit == Pow2(13 - x.e)
         IN  x.m[1] \div unit + (IF x.e = 13 THEN 0 ELSE (x.m[1] % unit) \div (unit \div 2))

\* Math.round((completed / total) * 100) for 0 <= completed <= total, total > 0
JsPercent(completed, total) ==
    IF completed = 0 THEN 0
    ELSE IF completed = total THEN 100
    ELSE MathRound(DoubleTimes100(DoubleDiv(completed, total)))

\* round-half-up of 100 * completed / total in exact arithmetic
ExactPercent(completed, total) == (200 * completed + total) \div (2 * total)

(***************************************************************************)
(* Strings.  A JavaScript string is a sequence of one-character strings;   *)
(* an optional request field is <<>> when it is undefined and <<v>> when   *)
(* it carries the value v.                                                 *)
(***************************************************************************)
Undefined == <<>>
Some(v) == <<v>>

\* v ?? d
OrElse(opt, d) == IF opt = Undefined THEN d ELSE opt[1]

RECURSIVE TrimStart(_)
TrimStart(s) == IF s # <<>> /\ s[1] = " " THEN TrimStart(Tail(s)) ELSE s

RECURSIVE TrimEnd(_)
TrimEnd(s) ==
    IF s # <<>> /\ s[Len(s)] = " " THEN TrimEnd(SubSeq(s, 1, Len(s) - 1)) ELSE s

\* String.prototype.trim
Trim(s) == TrimEnd(TrimStart(s))

\* the label written when a plan has no unread item
Completed == <<"C", "o", "m", "p", "l", "e", "t", "e", "d">>

\* SQL NULL / JavaScript null in completed_at; timestamps are 1, 2, ...
Null == 0

Max(a, b) == IF a >= b THEN a ELSE b
Min(a, b) == IF a <= b THEN a ELSE b

(***************************************************************************)
(* State.  plans and plan_items are the two tables (sets of rows keyed by  *)
(* id); foreign_keys says whether the database connection enforces the     *)
(* FOREIGN KEY clauses of the schema; req and resp are the request handled *)
(* last and the response sent for it.  Every handler is synchronous code   *)
(* on Node's single thread, so a request is handled from its first         *)
(* statement to its response before the next one starts: one action per    *)
(* handled request, requests in flight together being handled one after    *)
(* the other in either order.  The created_at columns are written once and *)
(* never read by the plan logic; they are left out of the rows.  before    *)
(* holds the rows of the plan named by the request handled last, as they   *)
(* were when the request arrived.  planScope and planBooksState are the    *)
(* state of the client's plan form: the scope selected and the state of    *)
(* the request that loads the book catalog, planReadingsPerDay the number  *)
(* typed into its "Readings per day" input, plansState the plan list the   *)
(* client holds, authUser the user signed in.  network is the set of       *)
(* requests and responses in flight between the client and the server; a   *)
(* handler leaves it to the step that takes the request and sends the      *)
(* response.  storedBookmarks is the bookmark list in the browser's local  *)
(* storage.  translationId, currentBookId (the bookId of the reader) and   *)
(* chapterNumber are the passage the reader shows, booksState the state of *)
(* the request for the books of the translation and loads the requests of  *)
(* it in flight, each with the active flag of the effect that made it;     *)
(* selectionInfo, noteDraft, showNoteEditor and actionMessage are the      *)
(* verse selection, the text of the note editor, whether the editor is     *)
(* open, and the toast.                                                    *)
(***************************************************************************)
VARIABLES plans, plan_items, notes, highlights, foreign_keys, req, resp, before,
          planScope, planBooksState, planReadingsPerDay, plansState, authUser,
          storedBookmarks, network, translationId, currentBookId, chapterNumber,
          booksState, loads, selectionInfo, noteDraft, showNoteEditor,
          actionMessage

vars == <<plans, plan_items, notes, highlights, foreign_keys, req, resp, before,
          planScope, planBooksState, planReadingsPerDay, plansState, authUser,
          storedBookmarks, network, translationId, currentBookId, chapterNumber,
          booksState, loads, selectionInfo, noteDraft, showNoteEditor,
          actionMessage>>

\* the state of the server
server == <<plans, plan_items, notes, highlights, foreign_keys, req, resp, before>>

\* the passage shown by the reader, with its book catalog and the requests
\* for it that have not ended
passage == <<translationId, currentBookId, chapterNumber, booksState, loads>>

\* the verse selection of the reader, with its panel
selection == <<selectionInfo, noteDraft, showNoteEditor, actionMessage>>

reader == <<passage, selection>>

\* the state of the client outside the catalog of the plan form
client == <<planReadingsPerDay, plansState, authUser, storedBookmarks, reader>>

\* what the handlers of the plan routes leave alone
others == <<notes, highlights, foreign_keys, planScope, planBooksState, client>>

\* a number of the progress column is held in units of 1 / Unit, so that
\* 33.5 is the value 67 and 100 is the value 100 * Unit
Unit == 2

\* the rows of a plan
RowsOfPlan(planId) ==
    [plans |-> {p \in plans : p.id = planId},
     plan_items |-> {i \in plan_items : i.plan_id = planId}]

\* bounds of the model
MaxItems == 2
MaxClock == 2

Users == {"u1", "u2"}
PlanIds == {"p1", "p2"}

\* ---- POST /plans ------------------------------------------------------

\* the rows built from the request's items, before the filter; the id of an
\* item stands for its randomUUID()
MappedItems(id, items) ==
    [k \in 1..Len(items) |->
        [id |-> <<id, k - 1>>,
         translation_id |-> Trim(OrElse(items[k].translationId, <<>>)),
         book_id |-> Trim(OrElse(items[k].bookId, <<>>)),
         chapter_number |-> OrElse(items[k].chapterNumber, 0),
         label |-> Trim(OrElse(items[k].label, <<>>)),
         order_index |-> k - 1]]

ItemIsValid(item) ==
    /\ item.translation_id # <<>>
    /\ item.book_id # <<>>
    /\ item.chapter_number > 0
    /\ item.label # <<>>

\* variant: order_index numbered after the filter instead of before it
SanitizedItemsRenumbered(id, items) ==
    LET kept == SelectSeq(MappedItems(id, items), ItemIsValid)
    IN  [k \in 1..Len(kept) |-> [kept[k] EXCEPT !.order_index = k - 1]]

SanitizedItems(id, items) == SelectSeq(MappedItems(id, items), ItemIsValid)

\* variant: the upper limit only
SafeProgressNoFloor(progress) == Min(OrElse(progress, 0), 100 * Unit)

SafeProgress(progress) == Max(0, Min(OrElse(progress, 0), 100 * Unit))

\* the plan_items row inserted for a sanitized item
ItemRow(id, item) ==
    [id |-> item.id, plan_id |-> id, translation_id |-> item.translation_id,
     book_id |-> item.book_id, chapter_number |-> item.chapter_number,
     label |-> item.label, order_index |-> item.order_index,
     completed_at |-> Null]

\* variant: the UPDATE after the item inserts writes next_reading only
CreatedPlanRowKeepsProgress(user, id, title, nextReading, progress, items) ==
    LET sanitized == SelectSeq(MappedItems(id, items), ItemIsValid)
    IN  [id |-> id, user_id |-> user, title |-> Trim(title[1]),
         next_reading |-> IF Len(sanitized) > 0 THEN sanitized[1].label
                          ELSE Trim(OrElse(nextReading, <<>>)),
         progress |-> Max(0, Min(OrElse(progress, 0), 100 * Unit))]

\* the plans row as it stands at the end of the handler: the INSERT, then
\* the UPDATE of next_reading and progress when items were inserted
CreatedPlanRow(user, id, title, nextReading, progress, items) ==
    LET sanitized == SanitizedItems(id, items)
    IN  [id |-> id, user_id |-> user, title |-> Trim(title[1]),
         next_reading |-> IF Len(sanitized) > 0 THEN sanitized[1].label
                          ELSE Trim(OrElse(nextReading, <<>>)),
         progress |-> IF Len(sanitized) > 0 THEN 0 ELSE SafeProgress(progress)]

CreateResponse(id, title, nextReading, progress, items) ==
    LET sanitized == SanitizedItems(id, items)
    IN  [status |-> 200,
         plan |-> [id |-> id, title |-> Trim(title[1]),
                   next_reading |-> IF Len(sanitized) > 0 THEN sanitized[1].label
                                    ELSE Trim(OrElse(nextReading, <<>>)),
                   progress |-> IF Len(sanitized) > 0 THEN 0
                                ELSE SafeProgress(progress),
                   total_items |-> Len(sanitized),
                   completed_items |-> 0,
                   items |-> [k \in 1..Len(sanitized) |-> ItemRow(id, sanitized[k])]]]

\* !title (and !reference, !text, !color in the notes and highlights routes):
\* the field is absent or the empty string
TitleMissing(title) == title = Undefined \/ title[1] = <<>>

CreatePlan(user, id, title, nextReading, progress, items) ==
    /\ id \notin {p.id : p \in plans} \cup {i.plan_id : i \in plan_items}
    /\ req' = [op |-> "create", user |-> user, id |-> id, title |-> title,
               nextReading |-> nextReading, progress |-> progress, items |-> items]
    /\ IF TitleMissing(title)
       THEN /\ resp' = [status |-> 400]
            /\ UNCHANGED <<plans, plan_items>>
       ELSE LET sanitized == SanitizedItems(id, items)
            IN  /\ plans' = plans \cup
                       {CreatedPlanRow(user, id, title, nextReading, progress, items)}
                /\ plan_items' = plan_items \cup
                       {ItemRow(id, sanitized[k]) : k \in 1..Len(sanitized)}
                /\ resp' = CreateResponse(id, title, nextReading, progress, items)
    /\ before' = RowsOfPlan(id)
    /\ UNCHANGED others

\* the plans row as the INSERT at the start of the handler writes it
InsertedPlanRow(user, id, title, nextReading, progress) ==
    [id |-> id, user_id |-> user, title |-> Trim(title[1]),
     next_reading |-> Trim(OrElse(nextReading, <<>>)),
     progress |-> SafeProgress(progress)]

\* the same request when a statement after the INSERT of the plans row
\* throws or the process dies there.  The INSERT has committed on its own.
\* The item inserts are one transaction: it has rolled back when the failure
\* is in it (inserted = FALSE) and it has committed when the failure is in
\* the UPDATE of next_reading and progress that follows it (inserted = TRUE)
CreatePlanFails(user, id, title, nextReading, progress, items, inserted) ==
    /\ id \notin {p.id : p \in plans} \cup {i.plan_id : i \in plan_items}
    /\ ~TitleMissing(title)
    /\ Len(SanitizedItems(id, items)) > 0
    /\ req' = [op |-> "create", user |-> user, id |-> id, title |-> title,
               nextReading |-> nextReading, progress |-> progress, items |-> items]
    /\ plans' = plans \cup {InsertedPlanRow(user, id, title, nextReading, progress)}
    /\ plan_items' =
          IF inserted
          THEN LET sanitized == SanitizedItems(id, items)
               IN  plan_items \cup {ItemRow(id, sanitized[k]) : k \in 1..Len(sanitized)}
          ELSE plan_items
    /\ resp' = [status |-> 500]
    /\ before' = RowsOfPlan(id)
    /\ UNCHANGED others

\* ---- PUT /plans/:planId/items/:itemId -----------------------------------

\* variant: the lookup without the user_id condition
PlanOfAnyUser(rows, planId, user) == {p \in rows : p.id = planId}

\* SELECT id FROM plans WHERE id = ? AND user_id = ?
PlanOfUser(rows, planId, user) ==
    {p \in rows : p.id = planId /\ p.user_id = user}

\* variant: the UPDATE without the plan_id condition
UpdateItemCompletedAnyPlan(rows, completedAt, itemId, planId) ==
    {IF i.id = itemId THEN [i EXCEPT !.completed_at = completedAt] ELSE i : i \in rows}

\* UPDATE plan_items SET completed_at = ? WHERE id = ? AND plan_id = ?
UpdateItemCompleted(rows, completedAt, itemId, planId) ==
    {IF i.id = itemId /\ i.plan_id = planId
     THEN [i EXCEPT !.completed_at = completedAt] ELSE i : i \in rows}

\* SELECT COUNT(*) FROM plan_items WHERE plan_id = ?
CountItems(rows, planId) == Cardinality({i \in rows : i.plan_id = planId})

\* SELECT COUNT(*) ... WHERE plan_id = ? AND completed_at IS NOT NULL
CountCompleted(rows, planId) ==
    Cardinality({i \in rows : i.plan_id = planId /\ i.completed_at # Null})

\* variant: the first item of the plan, completed or not
NextReadingOfAll(rows, planId) ==
    LET all == {i \in rows : i.plan_id = planId}
    IN  IF all = {} THEN Completed
        ELSE (CHOOSE i \in all : \A j \in all : i.order_index <= j.order_index).label

\* SELECT label ... WHERE plan_id = ? AND completed_at IS NULL
\* ORDER BY order_index LIMIT 1, then nextItem?.label ?? 'Completed'
NextReading(rows, planId) ==
    LET unread == {i \in rows : i.plan_id = planId /\ i.completed_at = Null}
    IN  IF unread = {} THEN Completed
        ELSE (CHOOSE i \in unread :
                \A j \in unread : i.order_index <= j.order_index).label

PlanProgress(total, completed) ==
    IF total > 0 THEN JsPercent(completed, total) * Unit ELSE 0

\* the plan part of the response body, computed from the rows read
Aggregate(rows, planId) ==
    [id |-> planId,
     progress |-> PlanProgress(CountItems(rows, planId), CountCompleted(rows, planId)),
     next_reading |-> NextReading(rows, planId),
     total_items |-> CountItems(rows, planId),
     completed_items |-> CountCompleted(rows, planId)]

\* UPDATE plans SET progress = ?, next_reading = ? WHERE id = ?
UpdatePlanAggregate(rows, planId, progress, nextReading) ==
    {IF p.id = planId
     THEN [p EXCEPT !.progress = progress, !.next_reading = nextReading]
     ELSE p : p \in rows}

\* variant: the three reads run before the item write
ToggleWritesStale(planRows, itemRows, planId, itemId, completedAt) ==
    LET written == {IF i.id = itemId /\ i.plan_id = planId
                    THEN [i EXCEPT !.completed_at = completedAt] ELSE i
                    : i \in itemRows}
        total == Cardinality({i \in itemRows : i.plan_id = planId})
        done == Cardinality({i \in itemRows :
                                i.plan_id = planId /\ i.completed_at # Null})
        unread == {i \in itemRows : i.plan_id = planId /\ i.completed_at = Null}
        agg == [id |-> planId,
                progress |-> IF total > 0 THEN JsPercent(done, total) * Unit ELSE 0,
                next_reading |->
                    IF unread = {} THEN Completed
                    ELSE (CHOOSE i \in unread :
                            \A j \in unread : i.order_index <= j.order_index).label,
                total_items |-> total,
                completed_items |-> done]
    IN  [plan_items |-> written,
         plans |-> {IF p.id = planId
                    THEN [p EXCEPT !.progress = agg.progress,
                                   !.next_reading = agg.next_reading]
                    ELSE p : p \in planRows},
         plan |-> agg]

\* the statements of the handler after the plan was found: the item write,
\* the three reads, the plan write
ToggleWrites(planRows, itemRows, planId, itemId, completedAt) ==
    LET written == UpdateItemCompleted(itemRows, completedAt, itemId, planId)
        agg == Aggregate(written, planId)
    IN  [plan_items |-> written,
         plans |-> UpdatePlanAggregate(planRows, planId, agg.progress, agg.next_reading),
         plan |-> agg]

\* t is the clock reading of new Date()
TogglePlanItem(user, planId, itemId, completed, t) ==
    /\ req' = [op |-> "toggle", user |-> user, planId |-> planId,
               itemId |-> itemId, completed |-> completed]
    /\ IF PlanOfUser(plans, planId, user) = {}
       THEN /\ resp' = [status |-> 404]
            /\ UNCHANGED <<plans, plan_items>>
       ELSE LET completedAt == IF completed THEN t ELSE Null
                w == ToggleWrites(plans, plan_items, planId, itemId, completedAt)
            IN  /\ plan_items' = w.plan_items
                /\ plans' = w.plans
                /\ resp' = [status |-> 200, plan |-> w.plan,
                            item |-> [id |-> itemId, completed_at |-> completedAt]]
    /\ before' = RowsOfPlan(planId)
    /\ UNCHANGED others

\* the same request when a statement after the item write throws (the
\* database is busy, full or unreadable) or the process dies there: every
\* statement commits on its own, so the item write stays
TogglePlanItemFails(user, planId, itemId, completed, t) ==
    /\ PlanOfUser(plans, planId, user) # {}
    /\ req' = [op |-> "toggle", user |-> user, planId |-> planId,
               itemId |-> itemId, completed |-> completed]
    /\ plan_items' = UpdateItemCompleted(plan_items,
                        IF completed THEN t ELSE Null, itemId, planId)
    /\ resp' = [status |-> 500]
    /\ before' = RowsOfPlan(planId)
    /\ UNCHANGED <<plans, others>>

\* ---- DELETE /plans/:id ---------------------------------------------------

\* with foreign keys enforced, deleting a plans row that plan_items rows
\* still reference fails (the schema has no ON DELETE clause)
DeleteViolatesForeignKey(user, id) ==
    /\ foreign_keys
    /\ PlanOfUser(plans, id, user) # {}
    /\ \E i \in plan_items : i.plan_id = id

DeletePlan(user, id) ==
    /\ req' = [op |-> "delete", user |-> user, id |-> id]
    /\ IF DeleteViolatesForeignKey(user, id)
       THEN /\ resp' = [status |-> 500]
            /\ UNCHANGED plans
       ELSE /\ plans' = plans \ PlanOfUser(plans, id, user)
            /\ resp' = [status |-> 200, ok |-> TRUE]
    /\ before' = RowsOfPlan(id)
    /\ UNCHANGED <<plan_items, others>>

\* ---- requireAuth ---------------------------------------------------------

\* the request carries no token, or one that jwt.verify refuses (it has
\* expired, or the server signs with another secret since its restart)
Unauthorized(op) ==
    /\ req' = [op |-> op, user |-> "none"]
    /\ resp' = [status |-> 401]
    /\ before' = [plans |-> {}, plan_items |-> {}]
    /\ UNCHANGED <<plans, plan_items, others>>

\* ---- GET /plans ----------------------------------------------------------

\* SELECT ... FROM plans WHERE user_id = ?
PlansOfUser(rows, user) == {p \in rows : p.user_id = user}

\* one plan of the response: the stored row, its items, and the progress and
\* next_reading computed from the items when it has any
ListedPlan(plan, itemRows) ==
    LET planItems == {i \in itemRows : i.plan_id = plan.id}
        totalItems == Cardinality(planItems)
        completedItems == Cardinality({i \in planItems : i.completed_at # Null})
        unread == {i \in planItems : i.completed_at = Null}
    IN  [id |-> plan.id,
         title |-> plan.title,
         progress |-> IF totalItems # 0
                      THEN JsPercent(completedItems, totalItems) * Unit
                      ELSE plan.progress,
         next_reading |->
             IF unread = {} THEN plan.next_reading
             ELSE (CHOOSE i \in unread :
                     \A j \in unread : i.order_index <= j.order_index).label,
         total_items |-> totalItems,
         completed_items |-> completedItems,
         items |-> planItems]

\* the order of the plans in the response (created_at DESC) is left out
ListPlans(user) ==
    /\ req' = [op |-> "list", user |-> user]
    /\ resp' = [status |-> 200,
                plans |-> {ListedPlan(p, {i \in plan_items :
                                           \E q \in PlansOfUser(plans, user) :
                                               i.plan_id = q.id})
                            : p \in PlansOfUser(plans, user)}]
    /\ before' = [plans |-> {}, plan_items |-> {}]
    /\ UNCHANGED <<plans, plan_items, others>>

\* ---- /notes ---------------------------------------------------------------

\* variant: the DELETE without the user_id condition
OwnRowOfAnyone(rows, id, user) == {n \in rows : n.id = id}

\* the rows matched by WHERE id = ? AND user_id = ?
OwnRow(rows, id, user) == {n \in rows : n.id = id /\ n.user_id = user}

\* SELECT id, reference, text, created_at FROM notes WHERE user_id = ?
ListNotes(user) ==
    /\ req' = [op |-> "listNotes", user |-> user]
    /\ resp' = [status |-> 200,
                notes |-> {[id |-> n.id, reference |-> n.reference, text |-> n.text]
                            : n \in {m \in notes : m.user_id = user}}]
    /\ before' = [plans |-> {}, plan_items |-> {}]
    /\ UNCHANGED <<plans, plan_items, others>>

CreateNote(user, id, reference, text) ==
    /\ id \notin {n.id : n \in notes}
    /\ req' = [op |-> "createNote", user |-> user, id |-> id]
    /\ IF TitleMissing(reference) \/ TitleMissing(text)
       THEN /\ resp' = [status |-> 400]
            /\ UNCHANGED notes
       ELSE /\ notes' = notes \cup {[id |-> id, user_id |-> user,
                                     reference |-> Trim(reference[1]),
                                     text |-> Trim(text[1])]}
            /\ resp' = [status |-> 200,
                        note |-> [id |-> id, reference |-> Trim(reference[1]),
                                  text |-> Trim(text[1])]]
    /\ before' = [plans |-> {}, plan_items |-> {}]
    /\ UNCHANGED <<plans, plan_items, highlights, foreign_keys, planScope,
                   planBooksState, client>>

DeleteNote(user, id) ==
    /\ req' = [op |-> "deleteNote", user |-> user, id |-> id]
    /\ notes' = notes \ OwnRow(notes, id, user)
    /\ resp' = [status |-> 200, ok |-> TRUE]
    /\ before' = [plans |-> {}, plan_items |-> {}]
    /\ UNCHANGED <<plans, plan_items, highlights, foreign_keys, planScope,
                   planBooksState, client>>

\* ---- /highlights ----------------------------------------------------------

\* SELECT id, reference, color, note, created_at FROM highlights
\* WHERE user_id = ?
ListHighlights(user) ==
    /\ req' = [op |-> "listHighlights", user |-> user]
    /\ resp' = [status |-> 200,
                highlights |-> {[id |-> h.id, reference |-> h.reference,
                                 color |-> h.color, note |-> h.note]
                                 : h \in {g \in highlights : g.user_id = user}}]
    /\ before' = [plans |-> {}, plan_items |-> {}]
    /\ UNCHANGED <<plans, plan_items, others>>

CreateHighlight(user, id, reference, color, note) ==
    /\ id \notin {h.id : h \in highlights}
    /\ req' = [op |-> "createHighlight", user |-> user, id |-> id]
    /\ IF TitleMissing(reference) \/ TitleMissing(color)
       THEN /\ resp' = [status |-> 400]
            /\ UNCHANGED highlights
       ELSE /\ highlights' = highlights \cup
                    {[id |-> id, user_id |-> user, reference |-> Trim(reference[1]),
                      color |-> color[1], note |-> Trim(OrElse(note, <<>>))]}
            /\ resp' = [status |-> 200,
                        highlight |-> [id |-> id, reference |-> Trim(reference[1]),
                                       color |-> color[1],
                                       note |-> Trim(OrElse(note, <<>>))]]
    /\ before' = [plans |-> {}, plan_items |-> {}]
    /\ UNCHANGED <<plans, plan_items, notes, foreign_keys, planScope,
                   planBooksState, client>>

DeleteHighlight(user, id) ==
    /\ req' = [op |-> "deleteHighlight", user |-> user, id |-> id]
    /\ highlights' = highlights \ OwnRow(highlights, id, user)
    /\ resp' = [status |-> 200, ok |-> TRUE]
    /\ before' = [plans |-> {}, plan_items |-> {}]
    /\ UNCHANGED <<plans, plan_items, notes, foreign_keys, planScope,
                   planBooksState, client>>

(***************************************************************************)
(* The plan form of the client: the reading-plan generator.                *)
(***************************************************************************)
DEFAULT_TRANSLATION == <<"B", "S", "B">>
DEFAULT_BOOK == "GEN"

PLAN_SETS ==
    << [id |-> "new-testament",
        bookIds |-> <<"MAT", "MRK", "LUK", "JHN", "ACT", "ROM", "1CO", "2CO",
                      "GAL", "EPH", "PHP", "COL", "1TH", "2TH", "1TI", "2TI",
                      "TIT", "PHM", "HEB", "JAS", "1PE", "2PE", "1JN", "2JN",
                      "3JN", "JUD", "REV">>],
       [id |-> "old-testament",
        bookIds |-> <<"GEN", "EXO", "LEV", "NUM", "DEU", "JOS", "JDG", "RUT",
                      "1SA", "2SA", "1KI", "2KI", "1CH", "2CH", "EZR", "NEH",
                      "EST", "JOB", "PSA", "PRO", "ECC", "SNG", "ISA", "JER",
                      "LAM", "EZK", "DAN", "HOS", "JOL", "AMO", "OBA", "JON",
                      "MIC", "NAM", "HAB", "ZEP", "HAG", "ZEC", "MAL">>],
       [id |-> "gospels", bookIds |-> <<"MAT", "MRK", "LUK", "JHN">>],
       [id |-> "psalms-proverbs", bookIds |-> <<"PSA", "PRO">>] >>

\* the decimal digits of a number n >= 0, as a template literal prints it
RECURSIVE DecimalDigits(_)
DecimalDigits(n) ==
    LET digit == <<"0", "1", "2", "3", "4", "5", "6", "7", "8", "9">>[(n % 10) + 1]
    IN  IF n < 10 THEN <<digit>> ELSE DecimalDigits(n \div 10) \o <<digit>>

\* planBooksState.data?.books ?? []
CatalogBooks(state) == IF state.data = Undefined THEN <<>> ELSE state.data[1]

\* variant: a book that the catalog lacks is replaced by the catalog's first
BookMapGetOrFirst(books, bookId) ==
    LET at == {k \in 1..Len(books) : books[k].id = bookId}
    IN  IF at = {} THEN Some(books[1])
        ELSE Some(books[CHOOSE k \in at : \A j \in at : j <= k])

\* new Map(books.map((book) => [book.id, book])).get(bookId): of several
\* entries of one id the last one stays
BookMapGet(books, bookId) ==
    LET at == {k \in 1..Len(books) : books[k].id = bookId}
    IN  IF at = {} THEN Undefined
        ELSE Some(books[CHOOSE k \in at : \A j \in at : j <= k])

\* variant: the loop runs one chapter too far
BookItemsOneMore(book) ==
    [k \in 1..(book.numberOfChapters + 1) |->
        [translationId |-> DEFAULT_TRANSLATION,
         bookId |-> book.id,
         chapterNumber |-> book.firstChapterNumber + k - 1,
         label |-> book.commonName \o <<" ">>
                      \o DecimalDigits(book.firstChapterNumber + k - 1)]]

\* the items of one book: the inner for loop
BookItems(book) ==
    LET start == book.firstChapterNumber
        end == book.firstChapterNumber + book.numberOfChapters - 1
    IN  IF end < start THEN <<>>
        ELSE [k \in 1..(end - start + 1) |->
                [translationId |-> DEFAULT_TRANSLATION,
                 bookId |-> book.id,
                 chapterNumber |-> start + k - 1,
                 label |-> book.commonName \o <<" ">> \o DecimalDigits(start + k - 1)]]

\* the outer for loop over selected.bookIds
RECURSIVE ScopeItems(_, _)
ScopeItems(bookIds, books) ==
    IF bookIds = <<>> THEN <<>>
    ELSE LET book == BookMapGet(books, Head(bookIds))
         IN  (IF book = Undefined THEN <<>> ELSE BookItems(book[1]))
                \o ScopeItems(Tail(bookIds), books)

\* the planItems memo
planItems(scope, state) ==
    LET selected == {k \in 1..Len(PLAN_SETS) : PLAN_SETS[k].id = scope}
        books == CatalogBooks(state)
    IN  IF selected = {} \/ Len(books) = 0 THEN <<>>
        ELSE ScopeItems(PLAN_SETS[CHOOSE k \in selected : \A j \in selected : k <= j].bookIds,
                        books)

\* the scope select of the plan form
SetPlanScope(scope) ==
    /\ planScope' = scope
    /\ UNCHANGED <<server, planBooksState, client, network>>

\* useAsyncData(() => getBooksForTranslation(DEFAULT_TRANSLATION), []): the
\* request made when the form mounts resolves with a catalog ...
PlanBooksLoaded(books) ==
    /\ planBooksState.loading
    /\ planBooksState' = [data |-> Some(books), loading |-> FALSE]
    /\ UNCHANGED <<server, planScope, client, network>>

\* ... or is rejected
PlanBooksFailed ==
    /\ planBooksState.loading
    /\ planBooksState' = [data |-> Undefined, loading |-> FALSE]
    /\ UNCHANGED <<server, planScope, client, network>>

\* a rate is held in units of 1 / RateUnit, so that 2.5 is the value 5
RateUnit == 2

\* the "Readings per day" input: setPlanReadingsPerDay(Number(value)), the
\* value being what the number input holds (the empty input gives 0)
SetPlanReadingsPerDay(value) ==
    /\ planReadingsPerDay' = value
    /\ UNCHANGED <<server, planScope, planBooksState, plansState, authUser,
                   storedBookmarks, network,
                   reader>>

\* Math.ceil(planItems.length / Math.max(planReadingsPerDay, 1)).  The
\* quotient of the two doubles is within 2^-52 of n / r, and n / r is an
\* integer or at least 1 / (RateUnit * 20) away from one, so Math.ceil of
\* the double is the ceiling of the exact quotient.
planEstimatedDays(items, rate) ==
    IF Len(items) # 0
    THEN LET r == Max(rate, RateUnit)
         IN  (Len(items) * RateUnit + r - 1) \div r
    ELSE 0


(***************************************************************************)
(* The API client (localDbClient.ts).  A call puts a request into network; *)
(* the server takes a request, handles it and puts its response there; the *)
(* function awaiting the call resumes when it takes the response.  Calls   *)
(* in flight together are handled in any order and answered in any order.  *)
(***************************************************************************)
MaxInFlight == 2

\* a call that awaits its response is told apart by its slot
FreeSlots == (1..MaxInFlight) \ {m.slot : m \in network}

Request(slot, call) ==
    [slot |-> slot, stage |-> "request", call |-> call, resp |-> [status |-> 0]]

Response(m, response) == [m EXCEPT !.stage = "response", !.resp = response]

\* apiFetch: throw new Error(payload?.error ?? `Request failed: ${status}`);
\* the body of a 500 is not JSON
ErrorMessage(response) ==
    CASE response.status = 400 -> "Title is required."
      [] response.status = 401 -> "Invalid token"
      [] response.status = 404 -> "Plan not found."
      [] OTHER -> "Request failed: 500"

(***************************************************************************)
(* The Plans tab of the client (NotesRoute): addPlan, removePlan and       *)
(* togglePlanItem, each up to its await, and what each does when it        *)
(* resumes with the response or with the error thrown for it.              *)
(***************************************************************************)
\* the title typed into the plan form
planTitle == <<"N", "T", " ">>

\* an item of the generator in the JSON body of POST /plans
ItemBody(item) ==
    [translationId |-> Some(item.translationId), bookId |-> Some(<<item.bookId>>),
     chapterNumber |-> Some(item.chapterNumber), label |-> Some(item.label)]

\* variant: the catch branch also empties the list, as loadPlans does
PlansStateRejectedEmptied(state, message) ==
    [state EXCEPT !.data = <<>>, !.error = Some(message)]

\* setPlansState((prev) => ({ ...prev, error: message }))
PlansStateRejected(state, message) == [state EXCEPT !.error = Some(message)]

addPlan ==
    /\ authUser # Undefined
    /\ Trim(planTitle) # <<>>
    /\ LET items == planItems(planScope, planBooksState)
       IN  IF Len(items) = 0
           THEN /\ plansState' = PlansStateRejected(plansState,
                       "Select a plan set with available books before saving.")
                /\ UNCHANGED network
           ELSE /\ \E slot \in FreeSlots :
                      network' = network \cup
                          {Request(slot, [op |-> "createPlan",
                                          title |-> Trim(planTitle),
                                          nextReading |-> items[1].label,
                                          progress |-> 0,
                                          items |-> [k \in 1..Len(items) |->
                                                        ItemBody(items[k])]])}
                /\ UNCHANGED plansState
    /\ UNCHANGED <<server, planScope, planBooksState, planReadingsPerDay, authUser,
                   storedBookmarks,
                   reader>>

\* data: [plan, ...(prev.data ?? [])], error: null
addPlanResolved(m) ==
    /\ m \in network /\ m.stage = "response"
    /\ m.call.op = "createPlan" /\ m.resp.status = 200
    /\ plansState' = [plansState EXCEPT !.data = <<m.resp.plan>> \o plansState.data,
                                        !.error = Undefined]
    /\ network' = network \ {m}
    /\ UNCHANGED <<server, planScope, planBooksState, planReadingsPerDay, authUser,
                   storedBookmarks,
                   reader>>

addPlanRejected(m) ==
    /\ m \in network /\ m.stage = "response"
    /\ m.call.op = "createPlan" /\ m.resp.status # 200
    /\ plansState' = PlansStateRejected(plansState, ErrorMessage(m.resp))
    /\ network' = network \ {m}
    /\ UNCHANGED <<server, planScope, planBooksState, planReadingsPerDay, authUser,
                   storedBookmarks,
                   reader>>

removePlan(id) ==
    /\ \E slot \in FreeSlots :
          network' = network \cup {Request(slot, [op |-> "deletePlan", id |-> id])}
    /\ UNCHANGED <<server, planScope, planBooksState, client>>

\* data: (prev.data ?? []).filter((plan) => plan.id !== id), error: null
removePlanResolved(m) ==
    /\ m \in network /\ m.stage = "response"
    /\ m.call.op = "deletePlan" /\ m.resp.status = 200
    /\ plansState' = [plansState EXCEPT
                         !.data = SelectSeq(plansState.data,
                                            LAMBDA plan : plan.id # m.call.id),
                         !.error = Undefined]
    /\ network' = network \ {m}
    /\ UNCHANGED <<server, planScope, planBooksState, planReadingsPerDay, authUser,
                   storedBookmarks,
                   reader>>

removePlanRejected(m) ==
    /\ m \in network /\ m.stage = "response"
    /\ m.call.op = "deletePlan" /\ m.resp.status # 200
    /\ plansState' = PlansStateRejected(plansState, ErrorMessage(m.resp))
    /\ network' = network \ {m}
    /\ UNCHANGED <<server, planScope, planBooksState, planReadingsPerDay, authUser,
                   storedBookmarks,
                   reader>>

\* updatePlanItem(planId, item.id, !item.completed_at), item being the item
\* of the list as rendered when the checkbox is clicked
togglePlanItem(planId, item) ==
    /\ \E slot \in FreeSlots :
          network' = network \cup
              {Request(slot, [op |-> "updatePlanItem", planId |-> planId,
                              itemId |-> item.id,
                              completed |-> item.completed_at = Null])}
    /\ UNCHANGED <<server, planScope, planBooksState, client>>

\* the plan of the list after the response: the item takes the completed_at
\* of the response, the plan the four aggregate fields of the response
PlanAfterToggle(plan, itemId, result) ==
    [plan EXCEPT
        !.items = [j \in 1..Len(plan.items) |->
                      IF plan.items[j].id = itemId
                      THEN [plan.items[j] EXCEPT
                               !.completed_at = result.item.completed_at]
                      ELSE plan.items[j]],
        !.progress = result.plan.progress,
        !.next_reading = result.plan.next_reading,
        !.total_items = result.plan.total_items,
        !.completed_items = result.plan.completed_items]

togglePlanItemResolved(m) ==
    /\ m \in network /\ m.stage = "response"
    /\ m.call.op = "updatePlanItem" /\ m.resp.status = 200
    /\ plansState' =
          [plansState EXCEPT
              !.data = [k \in 1..Len(plansState.data) |->
                           IF plansState.data[k].id # m.call.planId
                           THEN plansState.data[k]
                           ELSE PlanAfterToggle(plansState.data[k],
                                                m.call.itemId, m.resp)],
              !.error = Undefined]
    /\ network' = network \ {m}
    /\ UNCHANGED <<server, planScope, planBooksState, planReadingsPerDay, authUser,
                   storedBookmarks,
                   reader>>

togglePlanItemRejected(m) ==
    /\ m \in network /\ m.stage = "response"
    /\ m.call.op = "updatePlanItem" /\ m.resp.status # 200
    /\ plansState' = PlansStateRejected(plansState, ErrorMessage(m.resp))
    /\ network' = network \ {m}
    /\ UNCHANGED <<server, planScope, planBooksState, planReadingsPerDay, authUser,
                   storedBookmarks,
                   reader>>

\* the session of the client: the user restored from the stored token, or
\* signed in
SetUser(u) ==
    /\ authUser' = u
    /\ UNCHANGED <<server, planScope, planBooksState, planReadingsPerDay,
                   plansState, storedBookmarks, network, reader>>

(***************************************************************************)
(* The reader (ReaderRoute): the passage and its book catalog.  The        *)
(* catalog is loaded by useAsyncData with the translation as dependency:   *)
(* when the dependency changes the component renders again, the cleanup of *)
(* the effect clears the active flag of the load it had made, and the      *)
(* effect runs again: it sets loading and calls the loader.                *)
(***************************************************************************)
MaxLoads == 2

FreeLoadSlots == (1..MaxLoads) \ {l.slot : l \in loads}

\* booksState.data?.books ?? []
BooksOf(state) == IF state.data = Undefined THEN <<>> ELSE state.data[1].books

\* books.find((book) => book.id === bookId) ?? books[0]
SelectedBookOf(bs, id) ==
    LET at == {k \in 1..Len(bs) : bs[k].id = id}
    IN  IF at # {} THEN Some(bs[CHOOSE k \in at : \A j \in at : k <= j])
        ELSE IF Len(bs) > 0 THEN Some(bs[1])
        ELSE Undefined

selectedBook == SelectedBookOf(BooksOf(booksState), currentBookId)

\* selectedBook?.numberOfChapters ?? 1
ChapterMaxOf(bs, id) ==
    IF SelectedBookOf(bs, id) = Undefined THEN 1
    ELSE SelectedBookOf(bs, id)[1].numberOfChapters

\* the effects that follow a change of the catalog, of the book or of the
\* chapter, run until none of them changes anything: a book that the catalog
\* lacks is replaced by the catalog's first book at its first chapter, and a
\* chapter beyond the last one of the book by the last one
Settled(bs, id, chapter) ==
    LET found == \E k \in 1..Len(bs) : bs[k].id = id
        book == IF found \/ Len(bs) = 0 THEN id ELSE bs[1].id
        first == IF found \/ Len(bs) = 0 THEN chapter
                 ELSE IF chapter > bs[1].numberOfChapters
                      THEN bs[1].numberOfChapters
                      ELSE bs[1].firstChapterNumber
    IN  [bookId |-> book,
         chapterNumber |-> IF first > ChapterMaxOf(bs, book)
                           THEN ChapterMaxOf(bs, book) ELSE first]

\* the effect of useAsyncData, run for new dependencies
SetTranslationId(t) ==
    /\ t # translationId
    /\ translationId' = t
    /\ \E slot \in FreeLoadSlots :
          loads' = {[l EXCEPT !.active = FALSE] : l \in loads}
                      \cup {[slot |-> slot, deps |-> t, active |-> TRUE]}
    /\ booksState' = [booksState EXCEPT !.loading = TRUE, !.error = Undefined]
    /\ UNCHANGED <<server, network, planScope, planBooksState, planReadingsPerDay,
                   plansState, authUser,
                   storedBookmarks, currentBookId, chapterNumber, selection>>

\* variant: the result is stored whether the effect is still active or not
AfterResolvedAlways(state, load, data) ==
    [data |-> Some(data), loading |-> FALSE, error |-> Undefined]

\* .then((data) => { if (active) setState({ data, loading: false, error: null }) })
AfterResolved(state, load, data) ==
    IF load.active THEN [data |-> Some(data), loading |-> FALSE, error |-> Undefined]
    ELSE state

\* .catch((error) => { if (active) setState({ data: null, loading: false,
\* error: message }) })
AfterRejected(state, load, message) ==
    IF load.active THEN [data |-> Undefined, loading |-> FALSE, error |-> Some(message)]
    ELSE state

\* getBooksForTranslation(load.deps) resolves with the books of that
\* translation
BooksLoadResolved(load, catalog) ==
    /\ load \in loads
    /\ loads' = loads \ {load}
    /\ booksState' = AfterResolved(booksState, load,
                                   [translation |-> load.deps, books |-> catalog])
    /\ currentBookId' = Settled(BooksOf(booksState'), currentBookId, chapterNumber).bookId
    /\ chapterNumber' =
          Settled(BooksOf(booksState'), currentBookId, chapterNumber).chapterNumber
    /\ UNCHANGED <<server, network, planScope, planBooksState, planReadingsPerDay,
                   plansState, authUser,
                   storedBookmarks, translationId, selection>>

BooksLoadRejected(load) ==
    /\ load \in loads
    /\ loads' = loads \ {load}
    /\ booksState' = AfterRejected(booksState, load, "Request failed")
    /\ currentBookId' = Settled(BooksOf(booksState'), currentBookId, chapterNumber).bookId
    /\ chapterNumber' =
          Settled(BooksOf(booksState'), currentBookId, chapterNumber).chapterNumber
    /\ UNCHANGED <<server, network, planScope, planBooksState, planReadingsPerDay,
                   plansState, authUser,
                   storedBookmarks, translationId, selection>>

\* the Book and Chapter selects
SetBookId(id) ==
    /\ currentBookId' = id
    /\ chapterNumber' = Settled(BooksOf(booksState), id, chapterNumber).chapterNumber
    /\ UNCHANGED <<server, network, planScope, planBooksState, planReadingsPerDay,
                   plansState, authUser,
                   storedBookmarks, translationId, booksState, loads, selection>>

SetChapterNumber(n) ==
    /\ chapterNumber' = Settled(BooksOf(booksState), currentBookId, n).chapterNumber
    /\ UNCHANGED <<server, network, planScope, planBooksState, planReadingsPerDay,
                   plansState, authUser,
                   storedBookmarks, translationId, currentBookId, booksState,
                   loads, selection>>

\* the reader is left and opened again: the cleanup of the effect clears the
\* active flags, and the new component starts from its initial state with a
\* load of its own
Remount ==
    /\ \E slot \in FreeLoadSlots :
          loads' = {[l EXCEPT !.active = FALSE] : l \in loads}
                      \cup {[slot |-> slot, deps |-> DEFAULT_TRANSLATION,
                             active |-> TRUE]}
    /\ translationId' = DEFAULT_TRANSLATION
    /\ currentBookId' = DEFAULT_BOOK
    /\ chapterNumber' = 1
    /\ booksState' = [data |-> Undefined, loading |-> TRUE, error |-> Undefined]
    /\ selectionInfo' = Undefined
    /\ noteDraft' = <<>>
    /\ showNoteEditor' = FALSE
    /\ actionMessage' = Undefined
    /\ UNCHANGED <<server, network, planScope, planBooksState, planReadingsPerDay,
                   plansState, authUser, storedBookmarks>>

(***************************************************************************)
(* The reader's verse selection: how a selection of the window becomes a   *)
(* VerseSelection (ReaderContent), and the note or highlight saved from    *)
(* it (ReaderRoute), each save up to its await and what it does when it    *)
(* resumes.                                                                *)
(***************************************************************************)
\* variant: the two verse numbers in the order of the gesture
VerseRangeAsGiven(startNumber, endNumber) == [from |-> startNumber, to |-> endNumber]

\* const from = Math.min(startNumber, endNumber); to = Math.max(...)
VerseRange(startNumber, endNumber) ==
    [from |-> Min(startNumber, endNumber), to |-> Max(startNumber, endNumber)]

\* Number(verse.dataset.verseNumber ?? 0)
VerseNumberOf(verse) == OrElse(verse[1].verseNumber, 0)

\* ReaderContent.handleSelection on a selection of the window: collapsed,
\* inside (the chapter contains the anchor node), the .verse elements of the
\* two ends and the selected text.  called tells whether onSelection is
\* called, info is its argument, Undefined for null
resolveSelection(g) ==
    IF g.collapsed THEN [called |-> TRUE, info |-> Undefined]
    ELSE IF ~g.inside THEN [called |-> FALSE, info |-> Undefined]
    ELSE IF g.startVerse = Undefined \/ g.endVerse = Undefined
         THEN [called |-> TRUE, info |-> Undefined]
    ELSE IF VerseNumberOf(g.startVerse) = 0 \/ VerseNumberOf(g.endVerse) = 0
         THEN [called |-> TRUE, info |-> Undefined]
    ELSE IF Trim(g.text) = <<>> THEN [called |-> TRUE, info |-> Undefined]
    ELSE [called |-> TRUE,
          info |-> Some([from |-> VerseRange(VerseNumberOf(g.startVerse),
                                             VerseNumberOf(g.endVerse)).from,
                         to |-> VerseRange(VerseNumberOf(g.startVerse),
                                           VerseNumberOf(g.endVerse)).to,
                         text |-> Trim(g.text)])]

clearSelection ==
    /\ selectionInfo' = Undefined
    /\ noteDraft' = <<>>
    /\ showNoteEditor' = FALSE

\* ReaderRoute.handleSelection, the onSelection of the chapter
handleSelection(info) ==
    /\ IF info = Undefined THEN clearSelection
       ELSE /\ selectionInfo' = info
            /\ showNoteEditor' = FALSE
            /\ noteDraft' = info[1].text
    /\ UNCHANGED <<server, network, planScope, planBooksState, planReadingsPerDay,
                   plansState, authUser,
                   storedBookmarks, passage, actionMessage>>

\* a selection gesture ends on the chapter
onSelect(g) ==
    IF resolveSelection(g).called THEN handleSelection(resolveSelection(g).info)
    ELSE UNCHANGED vars

\* the Clear button of the selection panel
onClear ==
    /\ selectionInfo # Undefined
    /\ clearSelection
    /\ UNCHANGED <<server, network, planScope, planBooksState, planReadingsPerDay,
                   plansState, authUser,
                   storedBookmarks, passage, actionMessage>>

\* the Add note / Hide note button
toggleNoteEditor ==
    /\ selectionInfo # Undefined
    /\ showNoteEditor' = ~showNoteEditor
    /\ UNCHANGED <<server, network, planScope, planBooksState, planReadingsPerDay,
                   plansState, authUser,
                   storedBookmarks, passage, selectionInfo, noteDraft,
                   actionMessage>>

\* the text area of the note editor
setNoteDraft(value) ==
    /\ selectionInfo # Undefined /\ showNoteEditor
    /\ noteDraft' = value
    /\ UNCHANGED <<server, network, planScope, planBooksState, planReadingsPerDay,
                   plansState, authUser,
                   storedBookmarks, passage, selectionInfo, showNoteEditor,
                   actionMessage>>

\* selectedBook?.commonName ?? bookId
bookLabel == IF selectedBook = Undefined THEN <<currentBookId>>
             ELSE selectedBook[1].commonName

\* variant: the range always has a dash
buildReferenceAlwaysDash(from, to) ==
    translationId \o <<" ">> \o bookLabel \o <<" ">> \o DecimalDigits(chapterNumber)
        \o <<":">> \o DecimalDigits(from) \o <<"-">> \o DecimalDigits(to)

buildReference(from, to) ==
    LET range == IF from = to THEN DecimalDigits(from)
                 ELSE DecimalDigits(from) \o <<"-">> \o DecimalDigits(to)
    IN  translationId \o <<" ">> \o bookLabel \o <<" ">>
            \o DecimalDigits(chapterNumber) \o <<":">> \o range

\* the timer of setToast, 3000 ms after the last toast
toastExpires ==
    /\ actionMessage # Undefined
    /\ actionMessage' = Undefined
    /\ UNCHANGED <<server, network, planScope, planBooksState, planReadingsPerDay,
                   plansState, authUser,
                   storedBookmarks, passage, selectionInfo, noteDraft,
                   showNoteEditor>>

\* handleAddNote up to its await
handleAddNote ==
    /\ selectionInfo # Undefined
    /\ LET text == IF Trim(noteDraft) # <<>> THEN Trim(noteDraft)
                   ELSE Trim(selectionInfo[1].text)
       IN  IF authUser = Undefined
           THEN /\ actionMessage' = Some("Sign in to save notes.")
                /\ UNCHANGED network
           ELSE IF text = <<>>
           THEN /\ actionMessage' = Some("Enter a note to save.")
                /\ UNCHANGED network
           ELSE /\ \E slot \in FreeSlots :
                      network' = network \cup
                          {Request(slot,
                                   [op |-> "createNote",
                                    reference |-> buildReference(selectionInfo[1].from,
                                                                 selectionInfo[1].to),
                                    text |-> text])}
                /\ UNCHANGED actionMessage
    /\ UNCHANGED <<server, planScope, planBooksState, planReadingsPerDay,
                   plansState, authUser,
                   storedBookmarks, passage, selectionInfo, noteDraft,
                   showNoteEditor>>

\* handleHighlight(highlightColor) up to its await
handleHighlight(color) ==
    /\ selectionInfo # Undefined
    /\ IF authUser = Undefined
       THEN /\ actionMessage' = Some("Sign in to save highlights.")
            /\ UNCHANGED network
       ELSE /\ \E slot \in FreeSlots :
                  network' = network \cup
                      {Request(slot,
                               [op |-> "createHighlight",
                                reference |-> buildReference(selectionInfo[1].from,
                                                             selectionInfo[1].to),
                                color |-> color,
                                note |-> Trim(selectionInfo[1].text)])}
            /\ UNCHANGED actionMessage
    /\ UNCHANGED <<server, planScope, planBooksState, planReadingsPerDay,
                   plansState, authUser,
                   storedBookmarks, passage, selectionInfo, noteDraft,
                   showNoteEditor>>

\* setToast('Note saved.') or setToast('Highlight saved.'); clearSelection()
saveResolved(m) ==
    /\ m \in network /\ m.stage = "response"
    /\ m.call.op \in {"createNote", "createHighlight"} /\ m.resp.status = 200
    /\ actionMessage' = Some(IF m.call.op = "createNote" THEN "Note saved."
                             ELSE "Highlight saved.")
    /\ clearSelection
    /\ network' = network \ {m}
    /\ UNCHANGED <<server, planScope, planBooksState, planReadingsPerDay,
                   plansState, authUser, storedBookmarks, passage>>

\* variant: the catch branch clears the selection as well
saveRejectedCleared(m) ==
    /\ m \in network /\ m.stage = "response"
    /\ m.call.op \in {"createNote", "createHighlight"} /\ m.resp.status # 200
    /\ actionMessage' = Some(ErrorMessage(m.resp))
    /\ clearSelection
    /\ network' = network \ {m}
    /\ UNCHANGED <<server, planScope, planBooksState, planReadingsPerDay,
                   plansState, authUser, storedBookmarks, passage>>

\* catch (error) { setToast(message) }
saveRejected(m) ==
    /\ m \in network /\ m.stage = "response"
    /\ m.call.op \in {"createNote", "createHighlight"} /\ m.resp.status # 200
    /\ actionMessage' = Some(ErrorMessage(m.resp))
    /\ network' = network \ {m}
    /\ UNCHANGED <<server, planScope, planBooksState, planReadingsPerDay,
                   plansState, authUser,
                   storedBookmarks, passage, selectionInfo, noteDraft,
                   showNoteEditor>>

(***************************************************************************)
(* The reader's bookmarks.  storedBookmarks is the item 'bsb-bookmarks' of *)
(* the browser's local storage: absent, or the JSON text of an array,      *)
(* held as the array that JSON.parse makes of it.  A BookmarkEntry has     *)
(* three strings and a finite number, which JSON.stringify and JSON.parse  *)
(* give back as they were, and createdAt, the time it was made, which is   *)
(* shown in the bookmark list and read by nothing else; it is left out of  *)
(* the entries.                                                            *)
(***************************************************************************)
\* the type guard of loadBookmarks; the strings of an entry are strings in
\* every array that saveBookmarks wrote
IsBookmarkEntry(entry) == entry.chapterNumber \in Int

\* if (!raw) return []; ... return parsed.filter(...)
loadBookmarks(raw) == IF raw = Undefined THEN <<>> ELSE SelectSeq(raw[1], IsBookmarkEntry)

\* variant: the list is stored whole
FirstFiftyOrMore(list) == list

\* .slice(0, 50)
FirstFifty(list) == SubSeq(list, 1, Min(Len(list), 50))

handleBookmark ==
    LET entry == [translationId |-> translationId, bookId |-> currentBookId,
                  chapterNumber |-> chapterNumber,
                  label |-> bookLabel \o <<" ">> \o DecimalDigits(chapterNumber)]
        existing == loadBookmarks(storedBookmarks)
        isDuplicate == \E k \in 1..Len(existing) :
                          /\ existing[k].translationId = translationId
                          /\ existing[k].bookId = currentBookId
                          /\ existing[k].chapterNumber = chapterNumber
    IN  /\ IF ~isDuplicate
           THEN storedBookmarks' = Some(FirstFifty(<<entry>> \o existing))
           ELSE UNCHANGED storedBookmarks
        /\ actionMessage' = Some(IF isDuplicate THEN "Bookmark already saved."
                                 ELSE "Bookmark saved.")
        /\ UNCHANGED <<server, network, planScope, planBooksState,
                       planReadingsPerDay, plansState, authUser, passage,
                       selectionInfo, noteDraft, showNoteEditor>>

(***************************************************************************)
(* Requests.  The specifications share the handlers and differ in the      *)
(* requests they send.  Spec: one user with two plans, each the first      *)
(* chapters of a book as the client generates them, and every toggle and   *)
(* delete on them.  SpecOwner: two users, with one plan, one note and one  *)
(* highlight.  SpecClock: one plan toggled at several clock readings.      *)
(* SpecFault: the same on a server whose statements can fail.  SpecCreate: *)
(* every shape of create body, sent to a fresh server.  SpecLong: one long *)
(* plan read through in order.  SpecForm: the plan form of the client.     *)
(* SpecDays: the same with its "Readings per day" input.  SpecPlans: the   *)
(* Plans tab of the client against the server.  SpecLoads: the book        *)
(* catalog of the reader.  SpecSelect: the verse selection.  SpecReader    *)
(* and SpecSaves: notes and highlights saved from a selection.             *)
(* SpecBookmarks: the bookmarks of a long book.                            *)
(***************************************************************************)
Chapter(k) ==
    [translationId |-> Some(<<"B">>), bookId |-> Some(<<"G">>),
     chapterNumber |-> Some(k), label |-> Some(<<"G", " ">> \o DecimalDigits(k))]

\* the items the plan generator emits for the first n chapters of a book
Chapters(n) == [k \in 1..n |-> Chapter(k)]

ItemIds == PlanIds \X (0..(MaxItems - 1))

Init ==
    /\ plans = {}
    /\ plan_items = {}
    /\ notes = {}
    /\ highlights = {}
    /\ foreign_keys \in BOOLEAN
    /\ req = [op |-> "none"]
    /\ resp = [status |-> 0]
    /\ before = [plans |-> {}, plan_items |-> {}]
    /\ planScope = PLAN_SETS[1].id
    /\ planBooksState = [data |-> Undefined, loading |-> TRUE]
    /\ planReadingsPerDay = 2 * RateUnit
    /\ plansState = [data |-> <<>>, loading |-> FALSE, error |-> Undefined]
    /\ authUser = Undefined
    /\ storedBookmarks = Undefined
    /\ translationId = DEFAULT_TRANSLATION
    /\ currentBookId = DEFAULT_BOOK
    /\ chapterNumber = 1
    /\ booksState = [data |-> Undefined, loading |-> TRUE, error |-> Undefined]
    /\ loads = {[slot |-> 1, deps |-> DEFAULT_TRANSLATION, active |-> TRUE]}
    /\ selectionInfo = Undefined
    /\ noteDraft = <<>>
    /\ showNoteEditor = FALSE
    /\ actionMessage = Undefined
    /\ network = {}

Create ==
    /\ \E id \in PlanIds, n \in 0..MaxItems :
           CreatePlan("u1", id, Some(<<"T">>), Some(<<"N">>), Some(50 * Unit), Chapters(n))
    /\ UNCHANGED network

Toggle ==
    /\ \E planId \in PlanIds, itemId \in ItemIds, completed \in BOOLEAN :
           TogglePlanItem("u1", planId, itemId, completed, 1)
    /\ UNCHANGED network

Delete ==
    /\ \E id \in PlanIds : DeletePlan("u1", id)
    /\ UNCHANGED network

Next == Create \/ Toggle \/ Delete

Spec == Init /\ [][Next]_vars

\* two users and one plan
CreateOwned ==
    /\ \E user \in Users, n \in 0..MaxItems :
           CreatePlan(user, "p1", Some(<<"T">>), Some(<<"N">>), Some(50 * Unit), Chapters(n))
    /\ UNCHANGED network

ToggleOwned ==
    /\ \E user \in Users, k \in 0..(MaxItems - 1), completed \in BOOLEAN :
           TogglePlanItem(user, "p1", <<"p1", k>>, completed, 1)
    /\ UNCHANGED network

DeleteOwned ==
    /\ \E user \in Users : DeletePlan(user, "p1")
    /\ UNCHANGED network

ListOwned ==
    /\ \E user \in Users : ListPlans(user)
    /\ UNCHANGED network

NoteOwned ==
    /\ \E user \in Users, reference \in {Undefined, Some(<<"R", " ">>)} :
           CreateNote(user, "n1", reference, Some(<<"x">>))
    /\ UNCHANGED network

UnnoteOwned ==
    /\ \E user \in Users : DeleteNote(user, "n1")
    /\ UNCHANGED network

NotesOwned ==
    /\ \E user \in Users : ListNotes(user)
    /\ UNCHANGED network

HighlightOwned ==
    /\ \E user \in Users, note \in {Undefined, Some(<<"x">>)} :
           CreateHighlight(user, "h1", Some(<<"R">>), Some(<<"y">>), note)
    /\ UNCHANGED network

UnhighlightOwned ==
    /\ \E user \in Users : DeleteHighlight(user, "h1")
    /\ UNCHANGED network

HighlightsOwned ==
    /\ \E user \in Users : ListHighlights(user)
    /\ UNCHANGED network

NextOwner ==
    \/ CreateOwned \/ ToggleOwned \/ DeleteOwned \/ ListOwned
    \/ NoteOwned \/ UnnoteOwned \/ NotesOwned
    \/ HighlightOwned \/ UnhighlightOwned \/ HighlightsOwned

SpecOwner == Init /\ [][NextOwner]_vars

\* one user's plan on a server whose statements can fail
CreateOne ==
    /\ \E n \in 0..MaxItems :
           CreatePlan("u1", "p1", Some(<<"T">>), Some(<<"N">>), Some(50 * Unit), Chapters(n))
    /\ UNCHANGED network

ToggleOne ==
    /\ \E k \in 0..(MaxItems - 1), completed \in BOOLEAN, t \in 1..MaxClock :
           TogglePlanItem("u1", "p1", <<"p1", k>>, completed, t)
    /\ UNCHANGED network

ToggleFails ==
    /\ \E k \in 0..(MaxItems - 1), completed \in BOOLEAN, t \in 1..MaxClock :
           TogglePlanItemFails("u1", "p1", <<"p1", k>>, completed, t)
    /\ UNCHANGED network

CreateFails ==
    /\ \E n \in 1..MaxItems, inserted \in BOOLEAN :
           CreatePlanFails("u1", "p1", Some(<<"T">>), Some(<<"N">>), Some(50 * Unit),
                           Chapters(n), inserted)
    /\ UNCHANGED network

NextFault == CreateOne \/ ToggleOne \/ ToggleFails \/ CreateFails

SpecFault == Init /\ [][NextFault]_vars

\* the same plan on a server without failures, toggled at several times
NextClock == CreateOne \/ ToggleOne

SpecClock == Init /\ [][NextClock]_vars

\* every shape of create body, sent to a fresh server
TitleInputs == {Undefined, Some(<<>>), Some(<<" ">>), Some(<<"T", " ">>)}
NextReadingInputs == {Undefined, Some(<<" ", "N">>)}
\* absent, -1, 33.5, 50 and 101
ProgressInputs ==
    {Undefined, Some(0 - Unit), Some(33 * Unit + 1), Some(50 * Unit), Some(101 * Unit)}

ItemInput(chapter, label) ==
    [translationId |-> Some(<<"B">>), bookId |-> Some(<<"G">>),
     chapterNumber |-> chapter, label |-> label]

ItemInputs ==
    { ItemInput(Some(1), Some(<<"G", "1">>)),
      ItemInput(Some(2), Some(<<" ", "G", "2">>)),
      ItemInput(Some(3), Some(<<" ">>)),
      ItemInput(Undefined, Some(<<"G", "4">>)),
      ItemInput(Some(5), Some(Completed)) }

ItemSeqs == UNION {[1..n -> ItemInputs] : n \in 0..MaxItems}
ItemsInputs == {Undefined} \cup {Some(q) : q \in ItemSeqs}

CreateAny ==
    /\ req.op = "none"
    /\ \E user \in Users, title \in TitleInputs, nextReading \in NextReadingInputs,
          progress \in ProgressInputs, items \in ItemsInputs :
           CreatePlan(user, "p1", title, nextReading, progress, OrElse(items, <<>>))
    /\ UNCHANGED network

\* the plan list, read once after the create
ListCreated ==
    /\ req.op = "create"
    /\ \E user \in Users : ListPlans(user)
    /\ UNCHANGED network

NextCreate == CreateAny \/ ListCreated

SpecCreate == Init /\ [][NextCreate]_vars

\* the plan form: the scope is selected and the catalog request ends, with
\* catalogs of up to MaxBooks books of up to MaxChapters chapters
MaxBooks == 2
MaxChapters == 2

Book(id, commonName, firstChapterNumber, numberOfChapters) ==
    [id |-> id, commonName |-> commonName,
     firstChapterNumber |-> firstChapterNumber,
     numberOfChapters |-> numberOfChapters]

BookInputs ==
    UNION {{ Book("MAT", <<"M", "a", "t", "t", "h", "e", "w">>, 2, n),
             Book("MRK", <<"M", "a", "r", "k">>, 1, n),
             Book("PSA", <<"P", "s", "a", "l", "m", "s">>, 9, n),
             Book("TOB", <<"T", "o", "b", "i", "t">>, 1, n) } : n \in 0..MaxChapters}

Catalogs == UNION {[1..n -> BookInputs] : n \in 0..MaxBooks}

SelectScope == \E k \in 1..Len(PLAN_SETS) : SetPlanScope(PLAN_SETS[k].id)

BooksLoaded == \E books \in Catalogs : PlanBooksLoaded(books)

BooksFailed == PlanBooksFailed

NextForm == SelectScope \/ BooksLoaded \/ BooksFailed

\* the form does not depend on the server
InitForm == Init /\ foreign_keys

SpecForm == InitForm /\ [][NextForm]_vars

\* the plan form with its rate input: empty, 0.5, 1, 1.5, 2, 2.5 and 20
RateInputs == {0, 1, 2, 3, 4, 5, 20 * RateUnit}

SetRate == \E value \in RateInputs : SetPlanReadingsPerDay(value)

NextDays == SelectScope \/ BooksLoaded \/ BooksFailed \/ SetRate

SpecDays == InitForm /\ [][NextDays]_vars

\* the Plans tab against the server: one user makes one plan of up to
\* MaxItems chapters, toggles its items and removes it, with up to
\* MaxInFlight calls in flight; the server handles the requests it has
\* received in any order, or refuses one whose token does not verify.  The
\* user who signs in has no plans, notes or highlights yet, so the lists
\* loaded on signing in are the empty ones the client starts with
SignIn == SetUser(Some("u1"))

BooksLoadedShort ==
    PlanBooksLoaded(<<Book("MAT", <<"M", "a", "t", "t">>, 1, MaxItems)>>)

AddOne ==
    /\ plans = {} /\ plan_items = {} /\ network = {}
    /\ addPlan

RemoveShown == \E k \in 1..Len(plansState.data) : removePlan(plansState.data[k].id)

ToggleShown ==
    \E k \in 1..Len(plansState.data) :
        \E j \in 1..Len(plansState.data[k].items) :
            togglePlanItem(plansState.data[k].id, plansState.data[k].items[j])

ServeCreate ==
    \E m \in network :
        /\ m.stage = "request" /\ m.call.op = "createPlan"
        /\ CreatePlan(authUser[1], "p1", Some(m.call.title), Some(m.call.nextReading),
                      Some(m.call.progress), m.call.items)
        /\ network' = (network \ {m}) \cup {Response(m, resp')}

ServeToggle ==
    \E m \in network :
        /\ m.stage = "request" /\ m.call.op = "updatePlanItem"
        /\ TogglePlanItem(authUser[1], m.call.planId, m.call.itemId, m.call.completed, 1)
        /\ network' = (network \ {m}) \cup {Response(m, resp')}

ServeDelete ==
    \E m \in network :
        /\ m.stage = "request" /\ m.call.op = "deletePlan"
        /\ DeletePlan(authUser[1], m.call.id)
        /\ network' = (network \ {m}) \cup {Response(m, resp')}

ServeUnauthorized ==
    \E m \in network :
        /\ m.stage = "request"
        /\ Unauthorized(m.call.op)
        /\ network' = (network \ {m}) \cup {Response(m, resp')}

Resolved ==
    \E m \in network :
        addPlanResolved(m) \/ removePlanResolved(m) \/ togglePlanItemResolved(m)

Rejected ==
    \E m \in network :
        addPlanRejected(m) \/ removePlanRejected(m) \/ togglePlanItemRejected(m)

NextPlans ==
    \/ SignIn \/ BooksLoadedShort \/ AddOne \/ RemoveShown \/ ToggleShown
    \/ ServeCreate \/ ServeToggle \/ ServeDelete \/ ServeUnauthorized
    \/ Resolved \/ Rejected

\* on a database that does not enforce the foreign keys, so that a plan
\* with items can be deleted
InitPlans == Init /\ ~foreign_keys

SpecPlans == InitPlans /\ [][NextPlans]_vars

\* the reader's catalog: the translation is changed and the reader is left
\* and opened again while up to MaxLoads loads are in flight, and the loads
\* end in any order
Translations == {DEFAULT_TRANSLATION, <<"K", "J", "V">>, <<"W", "E", "B">>}

ReaderCatalogs ==
    { <<Book("GEN", <<"G", "e", "n", "e", "s", "i", "s">>, 1, MaxChapters),
        Book("JHN", <<"J", "o", "h", "n">>, 1, 1)>>,
      <<Book("JHN", <<"J", "o", "h", "n">>, 1, MaxChapters)>>,
      <<>> }

SelectTranslation == \E t \in Translations : SetTranslationId(t)

BooksResolved ==
    \E load \in loads, catalog \in ReaderCatalogs : BooksLoadResolved(load, catalog)

BooksRejected == \E load \in loads : BooksLoadRejected(load)

SelectBook ==
    \E k \in 1..Len(BooksOf(booksState)) : SetBookId(BooksOf(booksState)[k].id)

SelectChapter ==
    \E n \in 1..ChapterMaxOf(BooksOf(booksState), currentBookId) : SetChapterNumber(n)

Reopen == network = {} /\ Remount

NextLoads ==
    \/ SelectTranslation \/ BooksResolved \/ BooksRejected
    \/ SelectBook \/ SelectChapter \/ Reopen

SpecLoads == InitForm /\ [][NextLoads]_vars

\* the chapter of the reader: any selection of the window, and the buttons
\* of the selection panel that do not save
MaxVerse == 2

VerseElements ==
    {Undefined, Some([verseNumber |-> Undefined])}
        \cup {Some([verseNumber |-> Some(n)]) : n \in 0..MaxVerse}

Gestures ==
    [collapsed : BOOLEAN, inside : BOOLEAN, startVerse : VerseElements,
     endVerse : VerseElements, text : {<<>>, <<" ">>, <<" ", "w">>}]

Select == \E g \in Gestures : onSelect(g)

EditDraft == \E value \in {<<>>, <<" ">>, <<"n">>} : setNoteDraft(value)

NextSelect ==
    \/ BooksResolved \/ SelectChapter
    \/ Select \/ onClear \/ toggleNoteEditor \/ EditDraft

SpecSelect == InitForm /\ [][NextSelect]_vars

\* the reader with its saves: verses of a loaded chapter are selected, notes
\* and highlights are saved from them before and after signing in, one call
\* at a time and until MaxSaved of them are stored, and the server stores
\* them or refuses the token
MaxSaved == 1

VerseGestures ==
    {g \in Gestures :
        /\ g.inside /\ g.text = <<" ", "w">>
        /\ g.startVerse \in {Some([verseNumber |-> Some(n)]) : n \in 1..MaxVerse}
        /\ g.endVerse \in {Some([verseNumber |-> Some(n)]) : n \in 1..MaxVerse}
        /\ g.collapsed => g.startVerse = g.endVerse}

SelectVerses == \E g \in VerseGestures : onSelect(g)

CatalogLoaded ==
    \E load \in loads :
        BooksLoadResolved(load,
            <<Book("GEN", <<"G", "e", "n", "e", "s", "i", "s">>, 1, MaxChapters)>>)

SaveNote ==
    /\ network = {} /\ Cardinality(notes) + Cardinality(highlights) < MaxSaved
    /\ handleAddNote

Highlight ==
    /\ network = {} /\ Cardinality(notes) + Cardinality(highlights) < MaxSaved
    /\ handleHighlight(<<"g", "o", "l", "d">>)

ServeCreateNote ==
    \E m \in network :
        /\ m.stage = "request" /\ m.call.op = "createNote"
        /\ CreateNote(authUser[1], "n1", Some(m.call.reference), Some(m.call.text))
        /\ network' = (network \ {m}) \cup {Response(m, resp')}

ServeCreateHighlight ==
    \E m \in network :
        /\ m.stage = "request" /\ m.call.op = "createHighlight"
        /\ CreateHighlight(authUser[1], "h1", Some(m.call.reference),
                           Some(m.call.color), Some(m.call.note))
        /\ network' = (network \ {m}) \cup {Response(m, resp')}

SaveEnds == \E m \in network : saveResolved(m) \/ saveRejected(m)

NextReader ==
    \/ SignIn \/ CatalogLoaded \/ SelectChapter
    \/ SelectVerses \/ onClear \/ toggleNoteEditor \/ EditDraft
    \/ SaveNote \/ Highlight \/ toastExpires
    \/ ServeCreateNote \/ ServeCreateHighlight \/ ServeUnauthorized \/ SaveEnds

SpecReader == InitForm /\ [][NextReader]_vars

\* the same reader saving every selection as it was made: the note editor
\* is not opened and the selection is not cleared by hand
NextSaves ==
    \/ SignIn \/ CatalogLoaded \/ SelectChapter \/ SelectVerses
    \/ SaveNote \/ Highlight
    \/ ServeCreateNote \/ ServeCreateHighlight \/ ServeUnauthorized \/ SaveEnds

SpecSaves == InitForm /\ [][NextSaves]_vars

\* the bookmarks of a reader who goes through a book of LongBook chapters,
\* more than the bookmark list keeps, bookmarking each chapter once or
\* several times, and who starts again at the first chapter at any time
LongBook == 51

LongCatalogLoaded ==
    \E load \in loads :
        BooksLoadResolved(load, <<Book("PSA", <<"P", "s", "a", "l", "m", "s">>, 1,
                                       LongBook)>>)

Bookmark ==
    /\ booksState.data # Undefined
    /\ handleBookmark

IsBookmarked(chapter) ==
    \E k \in 1..Len(loadBookmarks(storedBookmarks)) :
        loadBookmarks(storedBookmarks)[k].chapterNumber = chapter

NextChapter ==
    /\ IsBookmarked(chapterNumber)
    /\ chapterNumber < LongBook
    /\ SetChapterNumber(chapterNumber + 1)

FirstChapter ==
    /\ chapterNumber > 1
    /\ SetChapterNumber(1)

NextBookmarks == LongCatalogLoaded \/ Bookmark \/ NextChapter \/ FirstChapter

SpecBookmarks == InitForm /\ [][NextBookmarks]_vars

\* one long plan, read in order: the next unread chapter is completed, or
\* the chapter completed last is reopened
LongLen == 40

CreateLong ==
    /\ \E n \in {LongLen - 1, LongLen} :
           CreatePlan("u1", "p1", Some(<<"T">>), Undefined, Undefined, Chapters(n))
    /\ UNCHANGED network

ToggleLong ==
    /\ \E k \in 0..LongLen, completed \in BOOLEAN :
           /\ \A i \in plan_items :
                 (i.order_index < k => i.completed_at # Null)
                 /\ (i.order_index > k => i.completed_at = Null)
           /\ TogglePlanItem("u1", "p1", <<"p1", k>>, completed, 1)
    /\ UNCHANGED network

NextLong == CreateLong \/ ToggleLong

SpecLong == Init /\ [][NextLong]_vars

(***************************************************************************)
(* Properties.  What a request should have done is stated from the rows    *)
(* and from the request, independently of the handlers' own definitions.   *)
(***************************************************************************)
ItemsOf(rows, planId) == {i \in rows : i.plan_id = planId}

Unread(rows) == {i \in rows : i.completed_at = Null}

\* the label of the unread row of lowest order index, or the sentinel
FirstUnreadLabel(rows) ==
    IF Unread(rows) = {} THEN Completed
    ELSE (CHOOSE i \in Unread(rows) :
            \A j \in Unread(rows) : j.order_index >= i.order_index).label

ToggleDone == req.op = "toggle" /\ resp.status = 200

\* C1: for every plan with at least one item that has received a toggle,
\* the stored progress is round(100 * completed / total) over its stored
\* items and the stored next_reading is the label of its first unread item
\* (or 'Completed').  A plan has received a toggle when the request handled
\* last was a toggle on it or when one of its items is completed.
C1_StoredAggregateExact ==
    \A p \in plans :
        LET rows == ItemsOf(plan_items, p.id)
            total == Cardinality(rows)
            completed == Cardinality(rows \ Unread(rows))
        IN  (/\ rows # {}
             /\ (ToggleDone /\ req.planId = p.id) \/ completed > 0)
            => /\ p.progress = ExactPercent(completed, total) * Unit
               /\ p.next_reading = FirstUnreadLabel(rows)

\* the aggregate the code derives from a set of item rows
DerivedFrom(rows) ==
    [progress |-> IF rows = {} THEN 0
                  ELSE JsPercent(Cardinality(rows \ Unread(rows)), Cardinality(rows)) * Unit,
     next_reading |-> FirstUnreadLabel(rows)]

StoredAggregate(planRows, planId) ==
    {[progress |-> p.progress, next_reading |-> p.next_reading] :
        p \in {q \in planRows : q.id = planId}}

HasItem(rows, planId, itemId) ==
    \E i \in rows : i.id = itemId /\ i.plan_id = planId

ItemDone(rows, itemId) ==
    \E i \in rows : i.id = itemId /\ i.completed_at # Null

\* C2: when two toggles on different items of one plan are in flight
\* together (the server handles them one right after the other, in either
\* order), then once both are done both items have the requested state and
\* the stored progress and next_reading are derived from that item set.
C2_RaceReflectsBoth ==
    [][(/\ ToggleDone
        /\ req'.op = "toggle" /\ resp'.status = 200
        /\ req'.planId = req.planId
        /\ req'.itemId # req.itemId
        /\ HasItem(plan_items, req.planId, req.itemId)
        /\ HasItem(plan_items, req.planId, req'.itemId))
       => /\ ItemDone(plan_items', req.itemId) = req.completed
          /\ ItemDone(plan_items', req'.itemId) = req'.completed
          /\ StoredAggregate(plans', req.planId)
                = {DerivedFrom(ItemsOf(plan_items', req.planId))}]_vars

\* two toggles on two items of one plan have both taken effect
C2_Witness ==
    /\ ToggleDone
    /\ req.completed
    /\ HasItem(plan_items, req.planId, req.itemId)
    /\ \E i \in ItemsOf(plan_items, req.planId) :
          i.id # req.itemId /\ i.completed_at # Null
    /\ \A p \in plans : p.id = req.planId => p.progress = 100 * Unit

\* C3: a toggle that fails after its item write leaves no state in which
\* the item's completion changed but the plan's progress and next_reading
\* were not recomputed.
C3_FailedToggleLeavesNoPartialWrite ==
    [][(req'.op = "toggle" /\ resp'.status = 500 /\ plan_items' # plan_items)
       => StoredAggregate(plans', req'.planId)
             = {DerivedFrom(ItemsOf(plan_items', req'.planId))}]_vars

\* C4: a toggle naming an item that does not belong to the caller's plan
\* fails with NotFound and changes no row.
C4_ForeignItemIsNotFound ==
    [][(/\ req'.op = "toggle"
        /\ PlanOfUser(plans, req'.planId, req'.user) # {}
        /\ ~HasItem(plan_items, req'.planId, req'.itemId))
       => /\ resp'.status = 404
          /\ plans' = plans
          /\ plan_items' = plan_items]_vars

\* C5: a toggle naming a plan that does not exist or belongs to another
\* user fails with 404 and changes no plans row and no plan_items row.
C5_ForeignPlanIsNotFound ==
    [][(/\ req'.op = "toggle"
        /\ ~\E p \in plans : p.id = req'.planId /\ p.user_id = req'.user)
       => /\ resp'.status = 404
          /\ plans' = plans
          /\ plan_items' = plan_items]_vars

\* another user's plan and one of its items were named, and refused
C5_Witness ==
    /\ req.op = "toggle"
    /\ resp.status = 404
    /\ req.completed
    /\ \E p \in plans : p.id = req.planId /\ p.user_id # req.user
    /\ \E i \in plan_items :
          i.id = req.itemId /\ i.plan_id = req.planId /\ i.completed_at = Null

\* C6: a delete by the owner removes the plan and all of its items.
C6_DeleteRemovesPlanAndItems ==
    [][(/\ req'.op = "delete"
        /\ \E p \in plans : p.id = req'.id /\ p.user_id = req'.user)
       => /\ \A p \in plans' : p.id # req'.id
          /\ \A i \in plan_items' : i.plan_id # req'.id]_vars

\* a string of no character other than spaces
IsBlank(str) == \A j \in 1..Len(str) : str[j] = " "

HasText(opt) == opt # Undefined /\ ~IsBlank(opt[1])

\* an input item with a translation, a book, a label and a positive chapter
WellFormed(item) ==
    /\ HasText(item.translationId)
    /\ HasText(item.bookId)
    /\ HasText(item.label)
    /\ item.chapterNumber # Undefined
    /\ item.chapterNumber[1] > 0

CreateDone == req.op = "create" /\ resp.status = 200

\* the stored plans row of the create request handled last
CreatedRows == {p \in plans : p.id = req.id}

\* C7: create-plan with an absent, empty or blank title fails with a
\* validation error and inserts no plans row and no plan_items row.
C7_BlankTitleIsRejected ==
    (req.op = "create" /\ (req.title = Undefined \/ IsBlank(req.title[1])))
    => /\ resp.status = 400
       /\ CreatedRows = {}
       /\ ItemsOf(plan_items, req.id) = {}

\* C8 as claimed: every item of a non-empty input sequence is persisted,
\* unread, with its position as order index: the indices are 0..n-1.
C8_EveryInputItemPersisted ==
    (CreateDone /\ Len(req.items) > 0)
    => LET rows == ItemsOf(plan_items, req.id)
       IN  /\ Cardinality(rows) = Len(req.items)
           /\ {i.order_index : i \in rows} = 0..(Len(req.items) - 1)
           /\ \A i \in rows : i.completed_at = Null

\* C8 as amended: exactly the well-formed items of the input sequence are
\* persisted, each unread, with its trimmed fields and with its zero-based
\* position in the input sequence as order index; the indices of a plan are
\* unique, and are 0..n-1 when every input item is well-formed.
C8_WellFormedItemsPersisted ==
    CreateDone
    => LET rows == ItemsOf(plan_items, req.id)
           kept == {k \in 1..Len(req.items) : WellFormed(req.items[k])}
       IN  /\ {i.order_index : i \in rows} = {k - 1 : k \in kept}
           /\ Cardinality(rows) = Cardinality(kept)
           /\ \A i \in rows :
                 /\ i.completed_at = Null
                 /\ i.label = Trim(req.items[i.order_index + 1].label[1])
                 /\ i.chapter_number = req.items[i.order_index + 1].chapterNumber[1]
           /\ (kept = 1..Len(req.items)
                 => {i.order_index : i \in rows} = 0..(Len(req.items) - 1))

\* an item that is not well-formed came before one that is
C8_Witness ==
    /\ CreateDone
    /\ Len(req.items) = 2
    /\ ~WellFormed(req.items[1])
    /\ WellFormed(req.items[2])
    /\ \E i \in plan_items : i.plan_id = req.id /\ i.order_index = 1

\* C9 as claimed: with a non-empty items sequence the stored and returned
\* progress is 0 and the next_reading is the first input item's label.
C9_FirstInputItemIsNext ==
    (CreateDone /\ Len(req.items) > 0)
    => /\ resp.plan.progress = 0
       /\ resp.plan.next_reading = OrElse(req.items[1].label, <<>>)
       /\ \A p \in CreatedRows :
             /\ p.progress = 0
             /\ p.next_reading = OrElse(req.items[1].label, <<>>)

\* C9 as amended: when at least one input item is well-formed, the stored
\* and returned progress is 0 and the next_reading is the trimmed label of
\* the first well-formed input item, whatever progress and nextReading the
\* caller supplied.
C9_FirstWellFormedItemIsNext ==
    (CreateDone /\ \E k \in 1..Len(req.items) : WellFormed(req.items[k]))
    => LET first == CHOOSE k \in 1..Len(req.items) :
                       /\ WellFormed(req.items[k])
                       /\ \A j \in 1..(k - 1) : ~WellFormed(req.items[j])
           label == Trim(req.items[first].label[1])
       IN  /\ resp.plan.progress = 0
           /\ resp.plan.next_reading = label
           /\ CreatedRows # {}
           /\ \A p \in CreatedRows : p.progress = 0 /\ p.next_reading = label

\* a caller-supplied progress and nextReading were overridden by the items
C9_Witness ==
    /\ CreateDone
    /\ req.progress = Some(50 * Unit)
    /\ req.nextReading # Undefined
    /\ Len(req.items) = 2
    /\ ~WellFormed(req.items[1])
    /\ WellFormed(req.items[2])
    /\ \A p \in CreatedRows : p.progress = 0

\* C10 as claimed: with an empty items sequence the plan has no items and
\* the stored and returned next_reading and progress are the caller's.
C10_CallerValuesAsGiven ==
    (CreateDone /\ Len(req.items) = 0)
    => /\ ItemsOf(plan_items, req.id) = {}
       /\ req.nextReading # Undefined
            => /\ resp.plan.next_reading = req.nextReading[1]
               /\ \A p \in CreatedRows : p.next_reading = req.nextReading[1]
       /\ req.progress # Undefined
            => /\ resp.plan.progress = req.progress[1]
               /\ \A p \in CreatedRows : p.progress = req.progress[1]

\* the caller's nextReading without surrounding spaces, '' when absent
GivenNextReading == Trim(OrElse(req.nextReading, <<>>))

\* the caller's progress brought into 0..100, 0 when absent
GivenProgress ==
    LET given == OrElse(req.progress, 0)
    IN  IF given < 0 THEN 0 ELSE IF given > 100 * Unit THEN 100 * Unit ELSE given

\* C10 as amended: with an empty items sequence the plan has no items, the
\* stored and returned next_reading is the caller's value trimmed ('' when
\* absent) and the progress is the caller's number limited to 0..100 (0
\* when absent).
C10_CallerValuesTrimmedAndClamped ==
    (CreateDone /\ Len(req.items) = 0)
    => /\ ItemsOf(plan_items, req.id) = {}
       /\ resp.plan.next_reading = GivenNextReading
       /\ resp.plan.progress = GivenProgress
       /\ resp.plan.total_items = 0
       /\ CreatedRows # {}
       /\ \A p \in CreatedRows :
             p.next_reading = GivenNextReading /\ p.progress = GivenProgress

\* an item-less plan was created from a progress above 100
C10_Witness ==
    /\ CreateDone
    /\ Len(req.items) = 0
    /\ req.progress = Some(101 * Unit)
    /\ req.nextReading = Some(<<" ", "N">>)
    /\ \E p \in CreatedRows : p.progress = 100 * Unit /\ p.next_reading = <<"N">>

\* C11: a create-plan request that fails after the insert of its plans row
\* leaves the prior state: no plans row and no plan_items row of the failed
\* create remains.
C11_FailedCreateLeavesNothing ==
    [][(req'.op = "create" /\ resp'.status = 500)
       => /\ plans' = plans
          /\ plan_items' = plan_items
          /\ \A p \in plans' : p.id # req'.id
          /\ \A i \in plan_items' : i.plan_id # req'.id]_vars

\* a whole number of percent from 0 to 100
IsPercent(x) == \E k \in 0..100 : x = k * Unit

\* C12: in every state and for every plan, the completed items are no more
\* than the items, and the progress is an integer from 0 to 100: as stored,
\* as returned by a toggle and as returned by the plan list.
C12_ProgressIsWholePercent ==
    /\ \A p \in plans :
          /\ CountCompleted(plan_items, p.id) <= CountItems(plan_items, p.id)
          /\ IsPercent(p.progress)
    /\ ToggleDone
          => /\ resp.plan.completed_items <= resp.plan.total_items
             /\ IsPercent(resp.plan.progress)
    /\ (req.op = "list")
          => \A q \in resp.plans :
                /\ q.completed_items <= q.total_items
                /\ IsPercent(q.progress)

\* C13: the progress a toggle computes from total items of which completed
\* are completed is 0 when total = 0 and otherwise 100 * completed / total
\* rounded half up, floor((200 * completed + total) / (2 * total)).
C13_ProgressIsRoundHalfUp ==
    ToggleDone
    => LET total == resp.plan.total_items
           completed == resp.plan.completed_items
       IN  resp.plan.progress =
               (IF total = 0 THEN 0
                ELSE (200 * completed + total) \div (2 * total)) * Unit

\* C14: after every toggle-item the returned and the stored next_reading
\* are the label of the unread item of lowest order index of the plan; when
\* the plan has items and all of them are completed, they are 'Completed'
\* and the returned and the stored progress are 100.
C14_NextReadingIsFirstUnread ==
    ToggleDone
    => LET rows == ItemsOf(plan_items, req.planId)
           stored == {p \in plans : p.id = req.planId}
       IN  /\ stored # {}
           /\ Unread(rows) # {}
                => \E i \in Unread(rows) :
                      /\ \A j \in Unread(rows) : i.order_index <= j.order_index
                      /\ resp.plan.next_reading = i.label
                      /\ \A p \in stored : p.next_reading = i.label
           /\ (rows # {} /\ Unread(rows) = {})
                => /\ resp.plan.next_reading = Completed
                   /\ resp.plan.progress = 100 * Unit
                   /\ \A p \in stored :
                         p.next_reading = Completed /\ p.progress = 100 * Unit

\* the first item was completed and the second one is the next reading
C14_Witness ==
    /\ ToggleDone
    /\ req.completed
    /\ req.itemId = <<req.planId, 0>>
    /\ resp.plan.next_reading = <<"G", " ", "2">>
    /\ \E i \in plan_items :
          i.plan_id = req.planId /\ i.order_index = 0 /\ i.completed_at # Null
    /\ \E i \in plan_items :
          i.plan_id = req.planId /\ i.order_index = 1 /\ i.completed_at = Null

\* C15: in every state, a plan's stored next_reading is 'Completed' only if
\* the plan has no unread item, whatever item labels create-plan accepted.
C15_SentinelMeansNothingUnread ==
    \A p \in plans :
        p.next_reading = Completed => Unread(ItemsOf(plan_items, p.id)) = {}

\* C16: toggle-item(completed = true) on an unread item of a plan, followed
\* by toggle-item(completed = false) on the same item with no other request
\* in between, restores the completed count, the progress and the
\* next_reading of the plan to their values before the first toggle, from
\* any state of the plan and as often as it is repeated.
C16_ToggleIsReversible ==
    [][(/\ ToggleDone
        /\ req.completed
        /\ \E i \in before.plan_items : i.id = req.itemId /\ i.completed_at = Null
        /\ req'.op = "toggle" /\ resp'.status = 200
        /\ req'.user = req.user
        /\ req'.planId = req.planId
        /\ req'.itemId = req.itemId
        /\ ~req'.completed)
       => /\ resp'.plan.completed_items
                = Cardinality(before.plan_items \ Unread(before.plan_items))
          /\ \A p \in before.plans :
                /\ resp'.plan.progress = p.progress
                /\ resp'.plan.next_reading = p.next_reading
          /\ StoredAggregate(plans', req.planId)
                = StoredAggregate(before.plans, req.planId)]_vars

\* C17: a toggle to the state the item is already in (completed = true on a
\* completed item, completed = false on an unread one) leaves the item's
\* completion timestamp as it was, and the aggregate it recomputes (total,
\* completed, progress, next_reading) is the aggregate before the call.
C17_ToggleIsIdempotent ==
    [][(/\ req'.op = "toggle" /\ resp'.status = 200
        /\ \E i \in plan_items :
              /\ i.id = req'.itemId /\ i.plan_id = req'.planId
              /\ (i.completed_at # Null) = req'.completed)
       => /\ \A i \in plan_items :
                i.id = req'.itemId
                  => \E j \in plan_items' :
                        j.id = i.id /\ j.completed_at = i.completed_at
          /\ resp'.plan.total_items = CountItems(plan_items, req'.planId)
          /\ resp'.plan.completed_items = CountCompleted(plan_items, req'.planId)
          /\ \A p \in plans :
                p.id = req'.planId
                  => /\ resp'.plan.progress = p.progress
                     /\ resp'.plan.next_reading = p.next_reading
          /\ StoredAggregate(plans', req'.planId)
                = StoredAggregate(plans, req'.planId)]_vars

\* C18: a toggle-item request on item i of plan P changes nothing but the
\* completion timestamp of i and the progress and next_reading of P: the
\* other fields of i, the other items of P and the rows of the other plans
\* stay as they are, and no row is added or removed.  No other request
\* changes a field of an item that exists.
C18_ToggleFrame ==
    [][/\ (req'.op = "toggle")
            => /\ {i.id : i \in plan_items'} = {i.id : i \in plan_items}
               /\ Cardinality(plan_items') = Cardinality(plan_items)
               /\ \A i \in plan_items :
                     \/ i \in plan_items'
                     \/ /\ i.id = req'.itemId
                        /\ i.plan_id = req'.planId
                        /\ \E t \in 0..MaxClock :
                              [i EXCEPT !.completed_at = t] \in plan_items'
               /\ {p.id : p \in plans'} = {p.id : p \in plans}
               /\ Cardinality(plans') = Cardinality(plans)
               /\ \A p \in plans :
                     \/ p \in plans'
                     \/ /\ p.id = req'.planId
                        /\ \E q \in plans' :
                              q = [p EXCEPT !.progress = q.progress,
                                            !.next_reading = q.next_reading]
       /\ (req'.op # "toggle")
            => \A j \in plan_items' :
                  (\E i \in plan_items : i.id = j.id) => j \in plan_items]_vars

\* an item of one plan was completed while the other plan has items
C18_Witness ==
    /\ ToggleDone
    /\ req.completed
    /\ \E i \in before.plan_items : i.id = req.itemId /\ i.completed_at = Null
    /\ \E i \in plan_items : i.id = req.itemId /\ i.completed_at # Null
    /\ \E i \in plan_items : i.plan_id # req.planId /\ i.completed_at # Null
    /\ \E i \in plan_items : i.plan_id = req.planId /\ i.id # req.itemId
    /\ Cardinality(plans) = 2

\* the ids of the plans, the notes and the highlights of a user
PlanIdsOf(user) == {p.id : p \in {q \in plans : q.user_id = user}}
NoteIdsOf(user) == {n.id : n \in {m \in notes : m.user_id = user}}
HighlightIdsOf(user) == {h.id : h \in {g \in highlights : g.user_id = user}}

\* C19: a request authenticated as one user never changes and never returns
\* a plan, a plan item, a note or a highlight of another user: after the
\* request the other user's rows are the rows before it, and the response
\* names none of them.
C19_OwnerIsolation ==
    [][\A other \in Users \ {req'.user} :
          /\ {p \in plans' : p.user_id = other} = {p \in plans : p.user_id = other}
          /\ {i \in plan_items' : i.plan_id \in PlanIdsOf(other)}
                = {i \in plan_items : i.plan_id \in PlanIdsOf(other)}
          /\ {n \in notes' : n.user_id = other} = {n \in notes : n.user_id = other}
          /\ {h \in highlights' : h.user_id = other}
                = {h \in highlights : h.user_id = other}
          /\ (req'.op = "list")
                => \A q \in resp'.plans :
                      /\ q.id \notin PlanIdsOf(other)
                      /\ \A i \in q.items : i.plan_id \notin PlanIdsOf(other)
          /\ (req'.op = "toggle" /\ resp'.status = 200)
                => resp'.plan.id \notin PlanIdsOf(other)
          /\ (req'.op = "listNotes")
                => \A n \in resp'.notes : n.id \notin NoteIdsOf(other)
          /\ (req'.op = "listHighlights")
                => \A h \in resp'.highlights : h.id \notin HighlightIdsOf(other)]_vars

\* a user named the plan, the note and the highlight of another user, who
\* still has all three
C19_Witness ==
    /\ req.op \in {"delete", "deleteNote", "deleteHighlight", "list"}
    /\ resp.status = 200
    /\ \E other \in Users \ {req.user} :
          /\ PlanIdsOf(other) = {"p1"}
          /\ NoteIdsOf(other) = {"n1"}
          /\ HighlightIdsOf(other) = {"h1"}
          /\ \E i \in plan_items : i.plan_id = "p1" /\ i.completed_at # Null

\* the scope selected in the form, and the entry of the loaded catalog for
\* a book id (the last one when the id occurs more than once)
SelectedBookIds ==
    LET at == {k \in 1..Len(PLAN_SETS) : PLAN_SETS[k].id = planScope}
    IN  IF at = {} THEN <<>> ELSE PLAN_SETS[CHOOSE k \in at : TRUE].bookIds

CatalogIndexOf(bookId) ==
    LET books == CatalogBooks(planBooksState)
        at == {k \in 1..Len(books) : books[k].id = bookId}
    IN  IF at = {} THEN 0 ELSE CHOOSE k \in at : \A j \in at : j <= k

\* the positions of the scope's books that the catalog has
Included == {b \in 1..Len(SelectedBookIds) : CatalogIndexOf(SelectedBookIds[b]) # 0}

CatalogBook(b) == CatalogBooks(planBooksState)[CatalogIndexOf(SelectedBookIds[b])]

RECURSIVE SumOfChapters(_)
SumOfChapters(positions) ==
    IF positions = {} THEN 0
    ELSE LET b == CHOOSE x \in positions : TRUE
         IN  CatalogBook(b).numberOfChapters + SumOfChapters(positions \ {b})

\* C20: the generated items are, for each book of the scope that the
\* catalog has, exactly one item per chapter from firstChapterNumber to
\* firstChapterNumber + numberOfChapters - 1, and nothing else; books come
\* in the order of the scope and chapters ascend within a book; the number
\* of items is the sum of numberOfChapters of the included books; each
\* label is the book's commonName, a space and the chapter number.
C20_GeneratedItemsCoverScope ==
    LET items == planItems(planScope, planBooksState)
        position(k) == CHOOSE b \in Included : SelectedBookIds[b] = items[k].bookId
    IN  /\ Len(items) = SumOfChapters(Included)
        /\ \A k \in 1..Len(items) :
              /\ \E b \in Included : SelectedBookIds[b] = items[k].bookId
              /\ items[k].chapterNumber >= CatalogBook(position(k)).firstChapterNumber
              /\ items[k].chapterNumber
                    < CatalogBook(position(k)).firstChapterNumber
                        + CatalogBook(position(k)).numberOfChapters
              /\ items[k].label = CatalogBook(position(k)).commonName
                                    \o <<" ">> \o DecimalDigits(items[k].chapterNumber)
              /\ items[k].translationId = DEFAULT_TRANSLATION
        /\ \A b \in Included :
              \A c \in 0..(CatalogBook(b).numberOfChapters - 1) :
                 Cardinality({k \in 1..Len(items) :
                    /\ items[k].bookId = SelectedBookIds[b]
                    /\ items[k].chapterNumber = CatalogBook(b).firstChapterNumber + c}) = 1
        /\ \A k, l \in 1..Len(items) :
              k < l => \/ position(k) < position(l)
                       \/ /\ position(k) = position(l)
                          /\ items[k].chapterNumber < items[l].chapterNumber

\* the catalog lists Mark before Matthew, and the gospels plan reads
\* Matthew first and Mark last
C20_Witness ==
    /\ planScope = "gospels"
    /\ Len(CatalogBooks(planBooksState)) = 2
    /\ CatalogBooks(planBooksState)[1].id = "MRK"
    /\ CatalogBooks(planBooksState)[2].id = "MAT"
    /\ CatalogBooks(planBooksState)[2].firstChapterNumber = 2
    /\ Len(planItems(planScope, planBooksState)) = 2 * MaxChapters
    /\ planItems(planScope, planBooksState)[1].label
          = <<"M", "a", "t", "t", "h", "e", "w", " ", "2">>
    /\ planItems(planScope, planBooksState)[2 * MaxChapters].bookId = "MRK"

\* the catalog without the entries of book b
WithoutBook(state, b) ==
    [state EXCEPT !.data = Some(SelectSeq(CatalogBooks(state), LAMBDA x : x.id # b))]

BookIdsKnown == {"MAT", "MRK", "PSA", "TOB"}

\* C21: a book of the selected scope that the catalog lacks contributes no
\* item and is no error: no generated item names a book outside the catalog,
\* and taking a book out of the catalog takes exactly that book's items out of
\* the generated sequence, the other items keeping their order and number;
\* a scope id that is not one of PLAN_SETS yields the empty sequence.
C21_MissingBookIsOmitted ==
    LET items == planItems(planScope, planBooksState)
        books == CatalogBooks(planBooksState)
    IN  /\ \A k \in 1..Len(items) :
              \E j \in 1..Len(books) : books[j].id = items[k].bookId
        /\ \A b \in BookIdsKnown :
              planItems(planScope, WithoutBook(planBooksState, b))
                  = SelectSeq(items, LAMBDA i : i.bookId # b)
        /\ \A scope \in {"", "apocrypha", "New Testament"} :
              planItems(scope, planBooksState) = <<>>

\* a catalog with Mark and without Matthew, under a scope that lists both
C21_Witness ==
    LET books == CatalogBooks(planBooksState)
    IN  /\ planScope \in {"new-testament", "gospels"}
        /\ ~ planBooksState.loading
        /\ \A j \in 1..Len(books) : books[j].id # "MAT"
        /\ \E j \in 1..Len(books) : books[j].id = "MRK"
        /\ Len(planItems(planScope, planBooksState)) > 0
        /\ planItems(planScope, planBooksState)[1].bookId = "MRK"

\* C22: the estimated number of days is 0 for no items and otherwise
\* ceil(N / R') with R' the rate truncated to an integer and raised to at
\* least 1.
C22_EstimatedDaysTruncatesRate ==
    LET N == Len(planItems(planScope, planBooksState))
        truncated == planReadingsPerDay \div RateUnit
        R == IF truncated < 1 THEN 1 ELSE truncated
        days == planEstimatedDays(planItems(planScope, planBooksState),
                                  planReadingsPerDay)
    IN  IF N = 0 THEN days = 0
        ELSE /\ days * R >= N
             /\ (days - 1) * R < N

\* C26: what GET /plans derives for a plan from its items (the stored values
\* when it has no item, the stored next_reading when it has no unread item)
\* is what the plan row stores, and what the last toggle-item on the plan
\* returned.
C26_ListAgreesWithStored ==
    /\ \A p \in plans :
          /\ ListedPlan(p, plan_items).progress = p.progress
          /\ ListedPlan(p, plan_items).next_reading = p.next_reading
    /\ req.op = "toggle" /\ resp.status = 200 =>
          \A p \in plans : p.id = req.planId =>
              /\ ListedPlan(p, plan_items).progress = resp.plan.progress
              /\ ListedPlan(p, plan_items).next_reading = resp.plan.next_reading

\* the calls and the answers in flight that name plan id
InFlightFor(id) ==
    {m \in network : \/ m.call.op = "updatePlanItem" /\ m.call.planId = id
                     \/ m.call.op = "deletePlan" /\ m.call.id = id}

\* the number of completed items of a plan of the client's list
CompletedShown(plan) ==
    Cardinality({j \in 1..Len(plan.items) : plan.items[j].completed_at # Null})

\* C27: once the responses of the calls made on a plan have all been
\* applied (two togglePlanItem calls in flight together, answered in either
\* order, included), the plan of the client's list has the progress,
\* next_reading and completed_items that the server holds for it, which are
\* those of the client's own item list.
C27_ClientAgreesAfterOverlappingToggles ==
    \A k \in 1..Len(plansState.data) :
        LET shown == plansState.data[k]
        IN  InFlightFor(shown.id) = {} =>
                /\ shown.completed_items = CompletedShown(shown)
                /\ \A p \in plans : p.id = shown.id =>
                      /\ shown.progress = p.progress
                      /\ shown.next_reading = p.next_reading
                      /\ shown.completed_items = CountCompleted(plan_items, p.id)

NoSelection(g) ==
    \/ g.startVerse = Undefined \/ g.endVerse = Undefined
    \/ g.startVerse[1].verseNumber \in {Undefined, Some(0)}
    \/ g.endVerse[1].verseNumber \in {Undefined, Some(0)}
    \/ IsBlank(g.text)

\* C24: for the verse numbers at the two ends of a selection inside the
\* chapter, in either order, resolveSelection reports 'no selection' when
\* one of the two is zero or absent or the trimmed text is empty, and
\* otherwise from is the smaller and to the larger of the two numbers;
\* every selection the reader holds has 1 <= from <= to and a text that is
\* not empty.
C24_SelectionIsOrdered ==
    /\ \A g \in Gestures :
          ~g.collapsed /\ g.inside =>
              /\ resolveSelection(g).called
              /\ NoSelection(g) <=> resolveSelection(g).info = Undefined
              /\ ~NoSelection(g) =>
                    LET a == g.startVerse[1].verseNumber[1]
                        b == g.endVerse[1].verseNumber[1]
                        info == resolveSelection(g).info[1]
                    IN  /\ info.from \in {a, b} /\ info.to \in {a, b}
                        /\ info.from <= a /\ info.from <= b
                        /\ info.to >= a /\ info.to >= b
    /\ selectionInfo # Undefined =>
          /\ 1 <= selectionInfo[1].from
          /\ selectionInfo[1].from <= selectionInfo[1].to
          /\ selectionInfo[1].text # <<>>
          /\ selectionInfo[1].text = Trim(selectionInfo[1].text)

\* the reader holds a selection of more than one verse
C24_Witness == selectionInfo # Undefined /\ selectionInfo[1].from < selectionInfo[1].to

\* verse numbers of one, two and three digits
RefVerses == {1, MaxVerse, 10, 176}

\* '{translationId} {bookLabel} {chapterNumber}:' for the passage shown
ReferenceStart ==
    translationId \o <<" ">> \o bookLabel \o <<" ">> \o DecimalDigits(chapterNumber)
        \o <<":">>

SaveCalls == {"createNote", "createHighlight"}

\* C23: for positive from <= to the reference is '{translationId}
\* {bookLabel} {chapterNumber}:{range}', the range being '{from}' when from
\* = to and '{from}-{to}' when from < to; the note and the highlight saved
\* from a selection are sent with the reference of that selection, and
\* stored with it.
C23_ReferenceFormat ==
    [][ LET start == ReferenceStart
        IN  /\ \A from \in RefVerses :
                  buildReference(from, from) = start \o DecimalDigits(from)
            /\ \A from \in RefVerses, to \in RefVerses :
                  from < to =>
                      buildReference(from, to) =
                          start \o DecimalDigits(from) \o <<"-">> \o DecimalDigits(to)
            /\ \A m \in network' \ network :
                  m.stage = "request" /\ m.call.op \in SaveCalls =>
                      m.call.reference =
                          start \o
                             (IF selectionInfo[1].from = selectionInfo[1].to
                              THEN DecimalDigits(selectionInfo[1].from)
                              ELSE DecimalDigits(selectionInfo[1].from) \o <<"-">>
                                      \o DecimalDigits(selectionInfo[1].to))
            /\ \A n \in (notes' \ notes) \cup (highlights' \ highlights) :
                  \E m \in network :
                      m.stage = "request" /\ n.reference = m.call.reference
      ]_vars

\* a note is stored for a selection of more than one verse
C23_Witness ==
    \E n \in notes : \E k \in 1..Len(n.reference) : n.reference[k] = "-"

\* the toasts of a save that the reader rejects itself
LocalRejections ==
    {Some("Sign in to save notes."), Some("Sign in to save highlights."),
     Some("Enter a note to save.")}

\* C25: the selection and the note draft are cleared by a cancel and by a
\* save that succeeded, and the selection ends in no other way; a save that
\* the reader rejects itself sends nothing, a save that the server refuses
\* stores nothing, and both leave the selection and the draft as they were.
C25_SelectionLifetime ==
    [][ /\ selectionInfo' = Undefined => noteDraft' = <<>> /\ ~showNoteEditor'
        /\ \A m \in network \ network' :
              /\ m.resp.status = 200 => selectionInfo' = Undefined
              /\ m.stage = "response" /\ m.resp.status # 200 =>
                    UNCHANGED <<selectionInfo, noteDraft, notes, highlights>>
        /\ \A m \in network' \ network :
              m.stage = "response" /\ m.resp.status # 200 =>
                  UNCHANGED <<notes, highlights>>
        /\ actionMessage' \in LocalRejections /\ actionMessage' # actionMessage =>
              UNCHANGED <<selectionInfo, noteDraft, notes, highlights, network>>
        /\ selectionInfo # Undefined /\ selectionInfo' = Undefined =>
              \/ UNCHANGED <<network, notes, highlights>>
              \/ \E m \in network \ network' : m.resp.status = 200
      ]_vars

\* the server has refused a save, and the selection is still held
C25_Witness ==
    /\ actionMessage = Some("Invalid token")
    /\ selectionInfo # Undefined
    /\ noteDraft = <<"n">>
    /\ notes = {} /\ highlights = {}

\* the bookmark of the list for the passage shown, if there is one
BookmarkShown(list) ==
    {k \in 1..Len(list) : /\ list[k].translationId = translationId
                          /\ list[k].bookId = currentBookId
                          /\ list[k].chapterNumber = chapterNumber}

\* C29: the stored bookmark list never has more than 50 entries nor two
\* entries for the same translation, book and chapter; bookmarking a
\* chapter that is stored leaves the list as it is, and a new bookmark is
\* placed first, before the bookmarks stored until then.
C29_BookmarksBounded ==
    [][ LET list == loadBookmarks(storedBookmarks)
            after == loadBookmarks(storedBookmarks')
        IN  /\ Len(after) <= 50
            /\ Cardinality({<<after[k].translationId, after[k].bookId,
                               after[k].chapterNumber>> : k \in 1..Len(after)})
                  = Len(after)
            /\ BookmarkShown(list) # {} => after = list
            /\ after # list =>
                  /\ BookmarkShown(after) = {1}
                  /\ actionMessage' = Some("Bookmark saved.")
                  /\ \A k \in 2..Len(after) : after[k] = list[k - 1]
                  /\ Len(after) = Min(Len(list) + 1, 50)
      ]_vars

\* the list is full, the bookmark of the first chapter has been dropped for
\* a newer one, and a chapter that is stored has been bookmarked again
C29_Witness ==
    /\ Len(loadBookmarks(storedBookmarks)) = 50
    /\ \A k \in 1..50 : loadBookmarks(storedBookmarks)[k].chapterNumber # 1
    /\ actionMessage = Some("Bookmark already saved.")

====
